---- MODULE Spec2Model ----
(***************************************************************************)
(* Verification model of the bootchat repository.                          *)
(*                                                                         *)
(* Part I  - the browser client's message batching and upstream generation *)
(*           (src/script.js: sendMessage, processBatchedMessages,          *)
(*           stopAIResponse, generateAIResponse, tryGenerateWithKey).      *)
(* Part II - the REST server's conversation and message handlers           *)
(*           (src/PERFORMANCE_OPTIMIZATIONS.md holds the server source)    *)
(*           over the tables of src/database_schema.sql.                   *)
(***************************************************************************)
EXTENDS Integers, Sequences, FiniteSets, TLC

(***************************************************************************)
(* Bounds of the model.                                                    *)
(***************************************************************************)
MaxSends == 2           \* sendMessage calls with a non-empty text
MaxBatches == 2         \* processBatchedMessages runs that start a generation
NumKeys == 3            \* stored API keys (the source embeds five)
NumDefaultConfigs == 2  \* default model configurations (the source lists nine)

Range(s) == {s[i] : i \in 1..Len(s)}

(***************************************************************************)
(* PART I - CLIENT                                                         *)
(***************************************************************************)
VARIABLES
    isGeneratingResponse,  \* script.js:10
    abortController,       \* script.js:11; 0 is null, b is the controller batch b created last
    pendingMessages,       \* script.js:8
    batchTimeout,          \* script.js:9; "null", "armed" (handle of a pending timer) or "fired" (stale handle)
    orphanTimers,          \* pending setTimeout callbacks whose handle batchTimeout no longer holds
    sendBtn,               \* text of .send-btn as set by setInputEnabled: "Send" or "Stop"
    chat,                  \* children of #messages appended by appendUser / appendAI
    conversationHistory,   \* script.js:2
    modelsChecked,         \* the window["models_checked_" + prefix] flags that are set
    activeIdx,             \* index of the stored key whose active flag is set
    useBuiltin,            \* localStorage use_builtin_key !== 'false'
    batch,                 \* one record per processBatchedMessages run that passed its guard
    nBatches,              \* number of such runs so far
    nSent,                 \* number of messages sent so far
    obs                    \* observation of the first generateAIResponse call

clientVars == <<isGeneratingResponse, abortController, pendingMessages, batchTimeout,
                orphanTimers, sendBtn, chat, conversationHistory, modelsChecked,
                activeIdx, useBuiltin, batch, nBatches, nSent>>

Batches == 1..MaxBatches

\* getUserApiKeys(): the embedded keys, in stored order
StoredKeys == [i \in 1..NumKeys |-> i]

\* DEFAULT_BUILTIN_API_KEY has the value of the first embedded key
BuiltinKey == StoredKeys[1]

\* apiKey.substring(0, 10) of the cache key; the embedded keys differ in their first ten characters
Prefix(k) == k

\* getActiveApiKey(): keys.find(k => k.active)
GetActiveApiKey == StoredKeys[activeIdx]

\* the modelConfigs literal of tryGenerateWithKey, as model identifiers in list order
DefaultConfigs == [i \in 1..NumDefaultConfigs |-> i]

\* a model name ListModels may report that is not in the default list
ExtraModel == NumDefaultConfigs + 1

\* results of checkAvailableModels: null / nothing usable, a known model, a new and a known model
ListModelsResults == {<<>>, <<1>>, <<ExtraModel, 1>>}

\* variant of MergeConfigs that pushes the new models behind the default list
MergeConfigsAppend(avail) ==
    DefaultConfigs \o SelectSeq(avail, LAMBDA m : m \notin Range(DefaultConfigs))

\* newConfigs = availableConfigs.filter(c => !existingModels.has(c.model)); modelConfigs.unshift(...newConfigs)
MergeConfigs(avail) ==
    SelectSeq(avail, LAMBDA m : m \notin Range(DefaultConfigs)) \o DefaultConfigs

\* texts an upstream answer may carry, as strings of character codes; 0 is white space
AnswerTexts == {<<0, 1, 0>>, <<1, 0>>}

\* String.prototype.trim
RECURSIVE TrimLeft(_)
TrimLeft(s) == IF s # <<>> /\ Head(s) = 0 THEN TrimLeft(Tail(s)) ELSE s
RECURSIVE TrimRight(_)
TrimRight(s) == IF s # <<>> /\ s[Len(s)] = 0 THEN TrimRight(SubSeq(s, 1, Len(s) - 1)) ELSE s
Trim(s) == TrimRight(TrimLeft(s))

\* a batch slot before its processBatchedMessages run
NoBatch ==
    [pc |-> "idle",        \* "models", "fetch", "json", "errbody": the await the run is suspended at; "done"
     msgs |-> <<>>,        \* messagesToProcess
     apiKey |-> 0,         \* generateAIResponse: apiKey
     phase |-> "none",     \* which tryGenerateWithKey call of generateAIResponse is active
     altIdx |-> 0,         \* position of the for..of over keys
     key |-> 0,            \* tryGenerateWithKey: apiKey
     configs |-> <<>>,     \* tryGenerateWithKey: modelConfigs
     cfg |-> 0,            \* position of the for..of over modelConfigs
     status |-> "none",    \* response.status of the response whose error body is being read
     aborted |-> FALSE,    \* signal.aborted of the controller this run created last
     firstError |-> "none",\* generateAIResponse: error of the primary attempt, "cancelled" or "failed"
     text |-> <<>>,        \* value tryGenerateWithKey returned
     outcome |-> "none",   \* how the run ended: "response", "error", "silent"
     stopped |-> FALSE]    \* history: stopAIResponse was called while the run was active

\* a run that has ended; its locals are dead
DoneBatch(r, outcome) ==
    [NoBatch EXCEPT !.pc = "done", !.outcome = outcome, !.stopped = r.stopped,
                    !.text = IF r.pc = "returned" THEN r.text ELSE <<>>]

Active(b) == batch[b].pc \in {"models", "fetch", "json", "errbody"}
InFlight == {b \in Batches : batch[b].pc \in {"fetch", "json", "errbody"}}

\* fetch(apiUrl, {signal}) of tryGenerateWithKey for configuration i
IssueFetch(r, i) == [r EXCEPT !.pc = "fetch", !.cfg = i, !.status = "none"]

\* tryGenerateWithKey from its entry to its first await
BeginTry(r, k, phase, altIdx, checked) ==
    LET r1 == [r EXCEPT !.key = k, !.phase = phase, !.altIdx = altIdx,
                        !.configs = DefaultConfigs, !.cfg = 0, !.status = "none"]
    IN  IF Prefix(k) \notin checked
        THEN \* window[cacheKey] = true; await checkAvailableModels(apiKey)
             [rec |-> [r1 EXCEPT !.pc = "models"], created |-> FALSE,
              checked |-> checked \cup {Prefix(k)}]
        ELSE \* abortController = new AbortController(); first loop iteration
             [rec |-> IssueFetch([r1 EXCEPT !.aborted = FALSE], 1), created |-> TRUE,
              checked |-> checked]

\* variant of NextAlt that walks the stored keys from the last to the first
NextAltLast(apiKey, from) ==
    LET done == IF from = 0 THEN NumKeys + 1 ELSE from
        cand == {j \in 1..(done - 1) : StoredKeys[j] # apiKey}
    IN  IF cand = {} THEN 0 ELSE CHOOSE j \in cand : \A i \in cand : j >= i

\* for (const keyObj of keys) if (keyObj.key !== apiKey): next position after from, 0 when exhausted
NextAlt(apiKey, from) ==
    LET cand == {j \in (from + 1)..NumKeys : StoredKeys[j] # apiKey}
    IN  IF cand = {} THEN 0 ELSE CHOOSE j \in cand : \A i \in cand : j <= i

\* generateAIResponse after a tryGenerateWithKey call threw err ("cancelled" or "failed")
KeyFailed(r, err, checked) ==
    LET r1 == [r EXCEPT !.firstError = IF r.phase = "primary" THEN err ELSE @]
        j == IF r.phase = "builtin" THEN 0
             ELSE NextAlt(r.apiKey, IF r.phase = "primary" THEN 0 ELSE r.altIdx)
    IN  IF j # 0
        THEN BeginTry(r1, StoredKeys[j], "alt", j, checked)
        ELSE IF r.phase # "builtin" /\ r.apiKey # BuiltinKey /\ useBuiltin
        THEN BeginTry(r1, BuiltinKey, "builtin", 0, checked)
        ELSE \* throw error
             [rec |-> [r1 EXCEPT !.pc = "thrown"], created |-> FALSE, checked |-> checked]

\* tryGenerateWithKey at the top of the for..of over modelConfigs, after configuration r.cfg;
\* every error other than the cancellation differs only in its message text
RequestLoop(r, checked) ==
    IF r.cfg < Len(r.configs)
    THEN IF r.aborted
         THEN KeyFailed(r, "cancelled", checked)
         ELSE [rec |-> IssueFetch(r, r.cfg + 1), created |-> FALSE, checked |-> checked]
    ELSE KeyFailed(r, "failed", checked)

\* catch (fetchError) of tryGenerateWithKey
CatchFetchError(r, checked) ==
    IF r.aborted
    THEN KeyFailed(r, "cancelled", checked)
    ELSE RequestLoop(r, checked)

\* appendAI(text) / appendUser(text): the element appended to #messages
AiEntry(b, kind, text) == [role |-> "ai", kind |-> kind, ref |-> b, text |-> text]
UserEntry(m) == [role |-> "user", kind |-> "message", ref |-> m, text |-> <<>>]

\* variant of ControllerAborted that tests the controller only, not its signal
ControllerExists(b, r) == abortController # 0

\* abortController && abortController.signal.aborted, read by run b whose record is r
ControllerAborted(b, r) ==
    /\ abortController # 0
    /\ IF abortController = b THEN r.aborted ELSE batch[abortController].aborted

\* processBatchedMessages resumes after await generateAIResponse(...) settled: r.pc is "returned" or "thrown"
ProcessBatchedResume(b, r) ==
    LET silent == IF r.pc = "returned"
                  THEN ControllerAborted(b, r)
                  ELSE r.firstError = "cancelled" \/ ControllerAborted(b, r)
    IN  IF silent
        THEN \* return; "already cleaned up by stopAIResponse"
             /\ batch' = [batch EXCEPT ![b] = DoneBatch(r, "silent")]
             /\ UNCHANGED <<isGeneratingResponse, abortController, pendingMessages,
                            batchTimeout, orphanTimers, sendBtn, chat>>
        ELSE /\ batch' = [batch EXCEPT ![b] =
                    [r EXCEPT !.pc = "done",
                              !.outcome = IF r.pc = "returned" THEN "response" ELSE "error"]]
             /\ chat' = Append(chat, IF r.pc = "returned"
                                     THEN AiEntry(b, "response", r.text)
                                     ELSE AiEntry(b, "error", <<>>))
             /\ isGeneratingResponse' = FALSE
             /\ abortController' = 0
             /\ sendBtn' = "Send"
             \* if (pendingMessages.length > 0 && !abortController) batchTimeout = setTimeout(...)
             /\ IF pendingMessages # <<>>
                THEN /\ batchTimeout' = "armed"
                     /\ orphanTimers' = IF batchTimeout = "armed"
                                        THEN orphanTimers + 1 ELSE orphanTimers
                ELSE UNCHANGED <<batchTimeout, orphanTimers>>
             /\ UNCHANGED pendingMessages

\* run b continues with the result R of the synchronous code that followed its await
Resume(b, R) ==
    /\ modelsChecked' = R.checked
    /\ UNCHANGED <<activeIdx, useBuiltin, nBatches, nSent>>
    /\ IF R.rec.pc \in {"models", "fetch", "json", "errbody"}
       THEN /\ batch' = [batch EXCEPT ![b] = R.rec]
            /\ abortController' = IF R.created THEN b ELSE abortController
            /\ UNCHANGED <<isGeneratingResponse, pendingMessages, batchTimeout,
                           orphanTimers, sendBtn, chat>>
       ELSE ProcessBatchedResume(b, R.rec)

ClientInit ==
    /\ isGeneratingResponse = FALSE
    /\ abortController = 0
    /\ pendingMessages = <<>>
    /\ batchTimeout = "null"
    /\ orphanTimers = 0
    /\ sendBtn = "Send"
    /\ chat = <<>>
    /\ conversationHistory = <<>>
    /\ modelsChecked = {}
    /\ activeIdx \in 1..NumKeys
    /\ useBuiltin \in BOOLEAN
    /\ batch = [b \in Batches |-> NoBatch]
    /\ nBatches = 0
    /\ nSent = 0

\* variant of SendMessage without the test of isGeneratingResponse
SendMessageAnyTime(empty) ==
    /\ nSent < MaxSends
    /\ IF empty
       THEN UNCHANGED clientVars
       ELSE /\ nSent' = nSent + 1
            /\ chat' = Append(chat, UserEntry(nSent + 1))
            /\ pendingMessages' = Append(pendingMessages, nSent + 1)
            /\ batchTimeout' = "armed"
            /\ UNCHANGED <<isGeneratingResponse, abortController, orphanTimers, sendBtn,
                           conversationHistory, modelsChecked, activeIdx, useBuiltin,
                           batch, nBatches>>

\* sendMessage(msg); the message text is identified by its send number
SendMessage(empty) ==
    /\ nSent < MaxSends
    /\ IF isGeneratingResponse \/ empty
       THEN UNCHANGED clientVars
       ELSE LET msg == nSent + 1
            IN  /\ nSent' = msg
                /\ chat' = Append(chat, UserEntry(msg))
                /\ pendingMessages' = Append(pendingMessages, msg)
                \* if (batchTimeout) clearTimeout(batchTimeout); batchTimeout = setTimeout(...)
                /\ batchTimeout' = "armed"
                /\ UNCHANGED <<isGeneratingResponse, abortController, orphanTimers, sendBtn,
                               conversationHistory, modelsChecked, activeIdx, useBuiltin,
                               batch, nBatches>>

\* a batch timer fires and runs processBatchedMessages up to its first await
BatchTimerFires(orphan) ==
    /\ IF orphan
       THEN orphanTimers > 0 /\ orphanTimers' = orphanTimers - 1 /\ UNCHANGED batchTimeout
       ELSE batchTimeout = "armed" /\ batchTimeout' = "fired" /\ UNCHANGED orphanTimers
    /\ IF isGeneratingResponse \/ pendingMessages = <<>>
       THEN UNCHANGED <<isGeneratingResponse, abortController, pendingMessages, sendBtn, chat,
                        conversationHistory, modelsChecked, activeIdx, useBuiltin, batch,
                        nBatches, nSent>>
       ELSE /\ nBatches < MaxBatches
            /\ LET b == nBatches + 1
                   apiKey == GetActiveApiKey
                   r0 == [NoBatch EXCEPT !.msgs = pendingMessages, !.apiKey = apiKey]
                   R == BeginTry(r0, apiKey, "primary", 0, modelsChecked)
               IN  /\ nBatches' = b
                   /\ isGeneratingResponse' = TRUE
                   /\ sendBtn' = "Stop"
                   /\ pendingMessages' = <<>>
                   \* generateAIResponse: originalMessages.forEach(msg => conversationHistory.push(...))
                   /\ conversationHistory' = conversationHistory \o
                          [i \in 1..Len(pendingMessages) |->
                              [role |-> "user", content |-> <<pendingMessages[i]>>]]
                   /\ batch' = [batch EXCEPT ![b] = R.rec]
                   /\ modelsChecked' = R.checked
                   /\ abortController' = IF R.created THEN b ELSE abortController
                   /\ UNCHANGED <<chat, activeIdx, useBuiltin, nSent>>

\* stopAIResponse, reachable from the Stop button and the Enter key while isGeneratingResponse
StopAIResponse ==
    /\ isGeneratingResponse
    /\ batch' = [b \in Batches |->
                    [batch[b] EXCEPT !.aborted = IF abortController = b THEN TRUE ELSE @,
                                     !.stopped = IF Active(b) THEN TRUE ELSE @]]
    /\ batchTimeout' = "null"
    /\ isGeneratingResponse' = FALSE
    /\ pendingMessages' = <<>>
    /\ abortController' = 0
    /\ sendBtn' = "Send"
    /\ UNCHANGED <<orphanTimers, chat, conversationHistory, modelsChecked, activeIdx,
                   useBuiltin, nBatches, nSent>>

\* the keydown handler of #user-input for the Enter key
KeydownEnter(empty) ==
    IF isGeneratingResponse THEN StopAIResponse ELSE SendMessage(empty)

\* await checkAvailableModels(apiKey) resolves with avail; the controller is created and the loop entered
ModelsChecked(b, avail) ==
    /\ batch[b].pc = "models"
    /\ LET r == [batch[b] EXCEPT !.configs = MergeConfigs(avail), !.aborted = FALSE]
       IN  Resume(b, [rec |-> IssueFetch(r, 1), created |-> TRUE, checked |-> modelsChecked])
    /\ UNCHANGED conversationHistory

\* await fetch(apiUrl, ...) settles while the signal is not aborted
\* ans: "ok" (response.ok), "e404" (404), "e401" (401 or 403), "eOther" (another status),
\*      "neterr" (fetch rejects)
FetchResponds(b, ans) ==
    /\ batch[b].pc = "fetch"
    /\ ~batch[b].aborted
    /\ LET r == batch[b]
       IN  CASE ans = "ok" ->
                  Resume(b, [rec |-> [r EXCEPT !.pc = "json"], created |-> FALSE,
                             checked |-> modelsChecked])
             [] ans = "neterr" ->
                  Resume(b, CatchFetchError(r, modelsChecked))
             [] OTHER ->
                  \* const errorData = await response.json()
                  Resume(b, [rec |-> [r EXCEPT !.pc = "errbody", !.status = ans],
                             created |-> FALSE, checked |-> modelsChecked])
    /\ UNCHANGED conversationHistory

\* await response.json() of a response that is not ok settles; parsed: it resolves
\* (the message of a 404 then includes 'not found')
ErrorBodyRead(b, parsed) ==
    /\ batch[b].pc = "errbody"
    /\ LET r == batch[b]
       IN  IF parsed /\ r.status # "e401"
           THEN \* lastError = ...; continue
                Resume(b, RequestLoop(r, modelsChecked))
           ELSE \* the throw of line 2746, or the rejection of response.json(), is caught
                \* by the catch (e) of line 2751, whose response.text() rejects (the
                \* body is already used): catch (fetchError) handles it
                Resume(b, CatchFetchError(r, modelsChecked))
    /\ UNCHANGED conversationHistory

\* the pending fetch rejects with AbortError after signal was aborted
FetchAborted(b) ==
    /\ batch[b].pc = "fetch"
    /\ batch[b].aborted
    /\ Resume(b, CatchFetchError(batch[b], modelsChecked))
    /\ UNCHANGED conversationHistory

\* await response.json() of an ok response settles
\* wf: the body has candidates[0].content.parts[0]; text: its text;
\* rejects: reading the body fails, which only an abort causes
BodyRead(b, wf, text, rejects) ==
    /\ batch[b].pc = "json"
    /\ rejects => batch[b].aborted
    /\ LET r == batch[b]
       IN  IF ~rejects /\ wf
           THEN LET aiResponse == Trim(text)
                IN  /\ conversationHistory' = Append(conversationHistory,
                            [role |-> "assistant", content |-> aiResponse])
                    /\ Resume(b, [rec |-> [r EXCEPT !.pc = "returned", !.text = aiResponse],
                                  created |-> FALSE, checked |-> modelsChecked])
           ELSE \* AbortError, or Error('Invalid API response structure')
                /\ UNCHANGED conversationHistory
                /\ Resume(b, CatchFetchError(r, modelsChecked))

(***************************************************************************)
(* Observation of the first generateAIResponse call: which keys and models *)
(* it requested and what was answered.  The program reads none of it.      *)
(***************************************************************************)
NoObs ==
    [apiKey |-> 0,         \* key of the primary attempt
     keysTried |-> <<>>,   \* keys tryGenerateWithKey was called with, in call order
     avail |-> <<>>,       \* what checkAvailableModels returned to the current call
     cfgLog |-> <<>>,      \* models requested by the current call, in request order
     answered |-> 0,       \* answers the current call has received
     lastAnswer |-> "none",\* the latest of them
     okKey |-> 0,          \* key, position and text of the first OK and well-formed answer
     okAt |-> 0,
     okText |-> <<>>]

\* a generateContent request of run b is issued in this step
Issued(b) ==
    /\ batch'[b].pc = "fetch"
    /\ \/ batch[b].pc # "fetch"
       \/ <<batch'[b].phase, batch'[b].altIdx, batch'[b].cfg>> #
              <<batch[b].phase, batch[b].altIdx, batch[b].cfg>>

\* a tryGenerateWithKey call of run b is entered in this step
Entered(b) ==
    /\ batch'[b].pc \in {"models", "fetch"}
    /\ \/ batch[b].pc = "idle"
       \/ <<batch'[b].phase, batch'[b].altIdx>> # <<batch[b].phase, batch[b].altIdx>>

\* obs after a step of run 1 in which ans was answered ("none": no answer);
\* avail and text are what the step's await resolved with
Observe(ans, avail, text) ==
    LET new == batch'[1]
        o1 == IF Entered(1)
              THEN [obs EXCEPT !.apiKey = new.apiKey, !.keysTried = Append(@, new.key),
                               !.avail = <<>>, !.cfgLog = <<>>, !.answered = 0,
                               !.lastAnswer = "none"]
              ELSE [obs EXCEPT !.avail = IF batch[1].pc = "models" THEN avail ELSE @,
                               !.answered = IF ans # "none" THEN @ + 1 ELSE @,
                               !.lastAnswer = IF ans # "none" THEN ans ELSE @]
        o2 == IF ans = "okText" /\ obs.okAt = 0
              THEN [o1 EXCEPT !.okKey = batch[1].key, !.okAt = Len(obs.cfgLog), !.okText = text]
              ELSE o1
    IN  obs' = IF Issued(1)
               THEN [o2 EXCEPT !.cfgLog = Append(@, new.configs[new.cfg])]
               ELSE o2

(***************************************************************************)
(* PART II - SERVER                                                        *)
(***************************************************************************)
MaxConvs == 2       \* conversations ever created
MaxRows == 3        \* rows of the messages table
MaxBulk == 2        \* length of the messages array of a bulk request
MaxInFlight == 2    \* requests handled at the same time
MaxUsers == 2       \* rows of the users table
MaxLogins == 2      \* logins that update last_login

VARIABLES
    conversations,  \* rows of the conversations table: [id, user_id, title]
    recency,        \* ids of the stored conversations by updated_at, latest first
    messages,       \* per conversation_id, its rows of the messages table in insertion order
    nextId,         \* conversation ids handed out so far
    users,          \* rows of the users table: [id, email, password_hash, is_active, last_login]
    user_settings,  \* per user_id, its row of the user_settings table (set: the row exists)
    req,            \* per slot, the request being handled and the locals of its handler
    resp            \* the response sent by the latest step, NoResp if it sent none

serverVars == <<conversations, recency, messages, nextId, users, user_settings, req, resp>>

UserIds == {1, 2}
ConvIds == 1..MaxConvs
Slots == 1..MaxInFlight

\* a string, as far as the handlers look at it: which text it is (or starts like),
\* its length and whether '...' was appended
Str(id, len) == [id |-> id, len |-> len, dots |-> FALSE]
Empty == Str(0, 0)
NewChatTitle == Str(9, 8)       \* 'New Chat'
GivenTitle == Str(8, 5)         \* a title sent by the client
ShortText == Str(1, 5)
LongText == Str(2, 51)

\* content.substring(0, 50) + (content.length > 50 ? '...' : '')
TitlePreviewLength == 50
TitlePreview(c) ==
    IF c.len > TitlePreviewLength
    THEN [id |-> c.id, len |-> TitlePreviewLength + 3, dots |-> TRUE]
    ELSE c

\* CHECK (role IN ('user', 'ai', 'system'))
ValidRoles == {"user", "ai", "system"}

\* elements a request body may carry in messages / as role and content;
\* "bot" stands for every role the CHECK constraint rejects, "" for a missing role
Msg(role, content) == [role |-> role, content |-> content]
BodyMsgs == {Msg("user", LongText), Msg("ai", ShortText), Msg("bot", ShortText)}

\* bcrypt.hash(password, 10) and bcrypt.compare(password, hash);
\* CompareAlways is the variant of Compare that accepts every password
Hash(password) == [of |-> password]
CompareAlways(password, hash) == TRUE
Compare(password, hash) == hash.of = password

\* passwords, as their lengths: none, one that is too short, two that are long enough
MinPasswordLength == 6
NoPassword == 0
ShortPassword == 3
GoodPassword == 6
OtherPassword == 7

UserRow(id, email, password, active) ==
    [id |-> id, email |-> email, password_hash |-> Hash(password), is_active |-> active,
     last_login |-> 0]

\* the holders of the tokens that the conversation routes are called with
TokenHolders == {UserRow(u, u, GoodPassword, TRUE) : u \in UserIds}

\* user_settings has no row for the user; the defaults of its columns
NoSettings == [set |-> FALSE, preferred_model |-> "gemini-pro", use_builtin_key |-> TRUE]

Idle ==
    [pc |-> "idle", type |-> "none", user |-> 0, conv |-> 0,
     email |-> 0, password |-> 0,
     role |-> "", content |-> Empty, title |-> Empty, msgs |-> <<>>,
     order |-> 0,        \* messageOrder
     i |-> 0,            \* position of the for..of over messages
     found |-> FALSE,    \* convResult.rows[0] is defined
     out |-> <<>>]       \* insertedMessages / the conversation read so far

\* auth: what the request carried, "none" (no bearer token), "bad" (jwt.verify fails) or "ok"
NoResp == [type |-> "none", auth |-> "", user |-> 0, conv |-> 0, email |-> 0, password |-> 0,
           status |-> 0, data |-> <<>>]

Response(r, status, data) ==
    [type |-> r.type, auth |-> "ok", user |-> r.user, conv |-> r.conv, email |-> r.email,
     password |-> r.password, status |-> status, data |-> data]

ServerInit ==
    /\ conversations = {}
    /\ recency = <<>>
    /\ messages = [c \in ConvIds |-> <<>>]
    /\ nextId = 0
    /\ users = TokenHolders
    /\ user_settings = [u \in UserIds |-> NoSettings]
    /\ req = [s \in Slots |-> Idle]
    /\ resp = NoResp

ConvRow(id) == CHOOSE c \in conversations : c.id = id
Exists(id) == \E c \in conversations : c.id = id

\* variant of ConvCheck whose query lacks AND user_id = $2
ConvCheckAnyUser(id, user) == \E c \in conversations : c.id = id

\* SELECT id FROM conversations WHERE id = $1 AND user_id = $2: rows.length > 0
ConvCheck(id, user) == \E c \in conversations : c.id = id /\ c.user_id = user

\* ... FROM messages WHERE conversation_id = $1
RowsOf(id) == messages[id]
RECURSIVE RowCount(_)
RowCount(n) == IF n = 0 THEN 0 ELSE Len(messages[n]) + RowCount(n - 1)
TotalRows == RowCount(MaxConvs)

\* variant of InsertByOrder for ORDER BY message_order DESC
RECURSIVE InsertByOrderDesc(_, _)
InsertByOrderDesc(m, sorted) ==
    IF sorted = <<>> THEN <<m>>
    ELSE IF m.message_order > Head(sorted).message_order THEN <<m>> \o sorted
    ELSE <<Head(sorted)>> \o InsertByOrderDesc(m, Tail(sorted))

\* ... ORDER BY message_order ASC: a stable insertion sort of the rows
RECURSIVE InsertByOrder(_, _)
InsertByOrder(m, sorted) ==
    IF sorted = <<>> THEN <<m>>
    ELSE IF m.message_order < Head(sorted).message_order THEN <<m>> \o sorted
    ELSE <<Head(sorted)>> \o InsertByOrder(m, Tail(sorted))
RECURSIVE OrderByMessageOrder(_)
OrderByMessageOrder(rows) ==
    IF rows = <<>> THEN <<>>
    ELSE InsertByOrder(rows[Len(rows)], OrderByMessageOrder(SubSeq(rows, 1, Len(rows) - 1)))

\* SELECT COALESCE(MAX(message_order), 0) FROM messages WHERE conversation_id = $1
MaxOrder(id) ==
    LET os == {RowsOf(id)[k].message_order : k \in DOMAIN RowsOf(id)}
    IN  IF os = {} THEN 0 ELSE CHOOSE o \in os : \A x \in os : x <= o

\* UPDATE conversations SET updated_at = NOW() WHERE id = $1
Touch(id, order) == IF \E k \in DOMAIN order : order[k] = id
                    THEN <<id>> \o SelectSeq(order, LAMBDA x : x # id)
                    ELSE order

\* variant of TitleIfNew that does not look at the current title
TitleAlways(id, preview) ==
    {IF c.id = id THEN [c EXCEPT !.title = preview] ELSE c : c \in conversations}

\* UPDATE conversations SET title = CASE WHEN title = 'New Chat' THEN $1 ELSE title END WHERE id = $2
TitleIfNew(id, preview) ==
    {IF c.id = id /\ c.title = NewChatTitle THEN [c EXCEPT !.title = preview] ELSE c :
        c \in conversations}

\* variant of Insertable for a messages table without the CHECK on role
InsertableAnyRole(id, m) == Exists(id)

\* INSERT INTO messages ...: the row violates no constraint of the table
Insertable(id, m) == Exists(id) /\ m.role \in ValidRoles

MessageRow(id, m, order) ==
    [conversation_id |-> id, role |-> m.role, content |-> m.content, message_order |-> order]

\* rows the handlers in flight may still insert, and conversations they may still create
PendingRows ==
    LET n(s) == CASE req[s].type = "add" /\ req[s].pc \in {"check", "max", "insert"} -> 1
                  [] req[s].type = "bulk" /\ req[s].pc \in {"check", "max"} -> Len(req[s].msgs)
                  [] req[s].type = "bulk" /\ req[s].pc \in {"insert", "title"} ->
                        Len(req[s].msgs) - req[s].i + (IF req[s].pc = "insert" THEN 1 ELSE 0)
                  [] OTHER -> 0
        RECURSIVE Sum(_)
        Sum(k) == IF k = 0 THEN 0 ELSE n(k) + Sum(k - 1)
    IN  Sum(MaxInFlight)
PendingCreates == Cardinality({s \in Slots : req[s].type = "create" /\ req[s].pc = "insert"})

\* res.status(status).json(data) ends the handler of slot s
Respond(s, status, data) ==
    /\ req' = [req EXCEPT ![s] = Idle]
    /\ resp' = Response(req[s], status, data)

\* the handler of slot s awaits its next query
Goto(s, r) ==
    /\ req' = [req EXCEPT ![s] = r]
    /\ resp' = NoResp

UnchangedTables == UNCHANGED <<conversations, recency, messages, nextId, users, user_settings>>

Request(type, u, id) == [Idle EXCEPT !.type = type, !.user = u, !.conv = id]

\* authenticateToken turns a request of a protected route away;
\* auth is "none" (no bearer token) or "bad" (jwt.verify fails)
RejectStatusAlways401(auth) == 401

\* if (!token) return res.status(401)...; jwt.verify: if (err) return res.status(403)...
RejectStatus(auth) == IF auth = "none" THEN 401 ELSE 403

AuthenticateTokenRejects(type, auth) ==
    /\ UnchangedTables
    /\ req' = req
    /\ resp' = [Response(Request(type, 0, 0), RejectStatus(auth), <<>>) EXCEPT !.auth = auth]

\* an authenticated request arrives: the handler up to its first query;
\* invalid: the body fails the validation of the route
Arrives(s, r, invalid, pc) ==
    /\ req[s].pc = "idle"
    /\ UnchangedTables
    /\ IF invalid THEN req' = req /\ resp' = Response(r, 400, <<>>)
       ELSE Goto(s, [r EXCEPT !.pc = pc])

\* "Verify conversation belongs to user": the convCheck query of slot s and the 404 after it
VerifyOwner(s, pc) ==
    /\ req[s].pc = "check"
    /\ UnchangedTables
    /\ IF ConvCheck(req[s].conv, req[s].user)
       THEN Goto(s, [req[s] EXCEPT !.pc = pc])
       ELSE Respond(s, 404, <<>>)

\* GET /api/conversations
ListConversations(s, u) ==
    Arrives(s, Request("list", u, 0), FALSE, "select")
ListConversationsRuns(s) ==
    /\ req[s].type = "list" /\ req[s].pc = "select"
    /\ UnchangedTables
    /\ LET mine == SelectSeq(recency, LAMBDA id : ConvRow(id).user_id = req[s].user)
       IN  Respond(s, 200, [k \in 1..Len(mine) |->
                               [id |-> mine[k], title |-> ConvRow(mine[k]).title,
                                messageCount |-> Len(RowsOf(mine[k]))]])

\* POST /api/conversations; title is Empty when the body has none
CreateConversation(s, u, title) ==
    /\ nextId + PendingCreates < MaxConvs
    /\ Arrives(s, [Request("create", u, 0) EXCEPT !.title = title], FALSE, "insert")
CreateConversationRuns(s) ==
    /\ req[s].type = "create" /\ req[s].pc = "insert"
    /\ LET id == nextId + 1
           title == IF req[s].title = Empty THEN NewChatTitle ELSE req[s].title
       IN  /\ nextId' = id
           /\ conversations' = conversations \cup
                  {[id |-> id, user_id |-> req[s].user, title |-> title]}
           /\ recency' = <<id>> \o recency
           /\ Respond(s, 201, <<[id |-> id, title |-> title]>>)
    /\ UNCHANGED <<messages, users, user_settings>>

\* GET /api/conversations/:id
GetConversation(s, u, id) ==
    Arrives(s, Request("get", u, id), FALSE, "check")
GetConversationRuns(s) ==
    /\ req[s].type = "get"
    /\ \/ VerifyOwner(s, "conv")
       \/ /\ req[s].pc = "conv"
          /\ UnchangedTables
          /\ Goto(s, [req[s] EXCEPT !.pc = "msgs", !.found = Exists(req[s].conv),
                                    !.out = IF Exists(req[s].conv)
                                            THEN <<ConvRow(req[s].conv).title>> ELSE <<>>])
       \/ /\ req[s].pc = "msgs"
          /\ UnchangedTables
          /\ LET rows == OrderByMessageOrder(RowsOf(req[s].conv))
             IN  IF req[s].found
                 THEN Respond(s, 200, <<[id |-> req[s].conv, title |-> req[s].out[1],
                            messages |-> [k \in 1..Len(rows) |->
                                             Msg(rows[k].role, rows[k].content)]]>>)
                 ELSE \* conversation is undefined: the TypeError is caught
                      Respond(s, 500, <<>>)

\* PUT /api/conversations/:id
UpdateConversation(s, u, id, title) ==
    Arrives(s, [Request("put", u, id) EXCEPT !.title = title], title = Empty, "check")
UpdateConversationRuns(s) ==
    /\ req[s].type = "put"
    /\ \/ VerifyOwner(s, "update")
       \/ /\ req[s].pc = "update"
          /\ UNCHANGED <<messages, nextId, users, user_settings>>
          /\ IF Exists(req[s].conv)
             THEN /\ conversations' = {IF c.id = req[s].conv
                                       THEN [c EXCEPT !.title = req[s].title] ELSE c :
                                          c \in conversations}
                  /\ recency' = Touch(req[s].conv, recency)
                  /\ Respond(s, 200, <<[id |-> req[s].conv, title |-> req[s].title]>>)
             ELSE \* result.rows[0] is undefined: the TypeError is caught
                  /\ UNCHANGED <<conversations, recency>>
                  /\ Respond(s, 500, <<>>)

\* variant of Cascade for a foreign key without ON DELETE CASCADE that is not enforced
NoCascade(id) == messages

\* conversation_id UUID REFERENCES conversations(id) ON DELETE CASCADE:
\* the messages table after the conversation row id is deleted
Cascade(id) == [messages EXCEPT ![id] = <<>>]

\* DELETE /api/conversations/:id
DeleteConversation(s, u, id) ==
    Arrives(s, Request("delete", u, id), FALSE, "check")
DeleteConversationRuns(s) ==
    /\ req[s].type = "delete"
    /\ \/ VerifyOwner(s, "delete")
       \/ /\ req[s].pc = "delete"
          /\ conversations' = {c \in conversations : c.id # req[s].conv}
          /\ messages' = Cascade(req[s].conv)
          /\ recency' = SelectSeq(recency, LAMBDA x : x # req[s].conv)
          /\ UNCHANGED <<nextId, users, user_settings>>
          /\ Respond(s, 200, <<>>)

\* variant of NextOrder that prefers a message_order of the body
NextOrderSupplied(max, supplied) == IF supplied # 0 THEN supplied ELSE max + 1

\* const messageOrder = orderResult.rows[0].next_order; a message_order of the body is not read
NextOrder(max, supplied) == max + 1

\* POST /api/conversations/:id/messages
AddMessage(s, u, id, m, supplied) ==
    /\ m.role \in ValidRoles /\ m.content # Empty =>
          TotalRows + PendingRows < MaxRows
    /\ Arrives(s, [Request("add", u, id) EXCEPT !.role = m.role, !.content = m.content,
                                                !.order = supplied],
               m.role = "" \/ m.content = Empty \/ m.role \notin ValidRoles, "check")
AddMessageRuns(s) ==
    /\ req[s].type = "add"
    /\ \/ VerifyOwner(s, "max")
       \/ /\ req[s].pc = "max"
          /\ UnchangedTables
          /\ Goto(s, [req[s] EXCEPT !.pc = "insert",
                                    !.order = NextOrder(MaxOrder(req[s].conv), req[s].order)])
       \/ /\ req[s].pc = "insert"
          /\ UNCHANGED <<conversations, recency, nextId, users, user_settings>>
          /\ IF Insertable(req[s].conv, req[s])
             THEN /\ messages' = [messages EXCEPT ![req[s].conv] =
                                      Append(@, MessageRow(req[s].conv, req[s], req[s].order))]
                  /\ Goto(s, [req[s] EXCEPT !.pc = "touch"])
             ELSE \* the foreign key is violated: the error is caught
                  /\ UNCHANGED messages
                  /\ Respond(s, 500, <<>>)
       \/ /\ req[s].pc = "touch"
          /\ recency' = Touch(req[s].conv, recency)
          /\ UNCHANGED <<conversations, messages, nextId, users, user_settings>>
          /\ IF req[s].role = "user" /\ req[s].order = 1
             THEN Goto(s, [req[s] EXCEPT !.pc = "title"])
             ELSE Respond(s, 201, <<[role |-> req[s].role, content |-> req[s].content,
                                     messageOrder |-> req[s].order]>>)
       \/ /\ req[s].pc = "title"
          /\ conversations' = TitleIfNew(req[s].conv, TitlePreview(req[s].content))
          /\ recency' = Touch(req[s].conv, recency)
          /\ UNCHANGED <<messages, nextId, users, user_settings>>
          /\ Respond(s, 201, <<[role |-> req[s].role, content |-> req[s].content,
                                messageOrder |-> req[s].order]>>)

\* GET /api/conversations/:id/messages
GetMessages(s, u, id) ==
    Arrives(s, Request("messages", u, id), FALSE, "check")
GetMessagesRuns(s) ==
    /\ req[s].type = "messages"
    /\ \/ VerifyOwner(s, "select")
       \/ /\ req[s].pc = "select"
          /\ UnchangedTables
          /\ LET rows == OrderByMessageOrder(RowsOf(req[s].conv))
             IN  Respond(s, 200, [k \in 1..Len(rows) |-> Msg(rows[k].role, rows[k].content)])

\* let messageOrder = orderResult.rows[0].max_order; a message_order of the body is not read
StartOrder(max, supplied) == max

\* the bulk loop after the message at position i was handled
BulkNext(s, r) ==
    IF r.i < Len(r.msgs)
    THEN Goto(s, [r EXCEPT !.pc = "insert", !.i = @ + 1])
    ELSE Goto(s, [r EXCEPT !.pc = "touch"])

\* POST /api/conversations/:id/messages/bulk; msgs is <<>> when the body has no non-empty array
AddMessagesBulk(s, u, id, msgs, supplied) ==
    /\ msgs # <<>> => TotalRows + PendingRows + Len(msgs) <= MaxRows
    /\ Arrives(s, [Request("bulk", u, id) EXCEPT !.msgs = msgs, !.order = supplied],
               msgs = <<>>, "check")
AddMessagesBulkRuns(s) ==
    /\ req[s].type = "bulk"
    /\ \/ VerifyOwner(s, "max")
       \/ /\ req[s].pc = "max"
          /\ UnchangedTables
          /\ Goto(s, [req[s] EXCEPT !.pc = "insert", !.i = 1,
                                    !.order = StartOrder(MaxOrder(req[s].conv), req[s].order)])
       \/ /\ req[s].pc = "insert"
          /\ UNCHANGED <<conversations, recency, nextId, users, user_settings>>
          /\ LET msg == req[s].msgs[req[s].i]
                 order == req[s].order + 1       \* messageOrder++
                 r == [req[s] EXCEPT !.order = order, !.out = Append(@, msg)]
             IN  IF Insertable(req[s].conv, msg)
                 THEN /\ messages' = [messages EXCEPT ![req[s].conv] =
                                          Append(@, MessageRow(req[s].conv, msg, order))]
                      /\ IF msg.role = "user" /\ order = 1
                         THEN Goto(s, [r EXCEPT !.pc = "title"])
                         ELSE BulkNext(s, r)
                 ELSE \* a constraint is violated: the error is caught, earlier rows stay
                      /\ UNCHANGED messages
                      /\ Respond(s, 500, <<>>)
       \/ /\ req[s].pc = "title"
          /\ conversations' = TitleIfNew(req[s].conv, TitlePreview(req[s].msgs[req[s].i].content))
          /\ recency' = Touch(req[s].conv, recency)
          /\ UNCHANGED <<messages, nextId, users, user_settings>>
          /\ BulkNext(s, req[s])
       \/ /\ req[s].pc = "touch"
          /\ recency' = Touch(req[s].conv, recency)
          /\ UNCHANGED <<conversations, messages, nextId, users, user_settings>>
          /\ Respond(s, 201, req[s].out)

\* GET /api/auth/verify: the handler awaits nothing
Verify(u) ==
    /\ UnchangedTables
    /\ req' = req
    /\ resp' = Response(Request("verify", u, 0), 200, <<u>>)

SettingsJson(row) ==
    [preferredModel |-> row.preferred_model, useBuiltinKey |-> row.use_builtin_key]

\* GET /api/settings
GetSettings(s, u) ==
    Arrives(s, Request("getSettings", u, 0), FALSE, "select")
GetSettingsRuns(s) ==
    /\ req[s].type = "getSettings" /\ req[s].pc = "select"
    /\ UnchangedTables
    /\ Respond(s, 200, <<SettingsJson(IF user_settings[req[s].user].set
                                      THEN user_settings[req[s].user] ELSE NoSettings)>>)

\* the bodies of PUT /api/settings: preferredModel is Unset where the body has none,
\* hasUseBuiltinKey tells whether useBuiltinKey is given
Unset == ""
OtherModel == "gemini-flash"
SettingsBodies ==
    {[preferredModel |-> Unset, hasUseBuiltinKey |-> FALSE, useBuiltinKey |-> FALSE],
     [preferredModel |-> OtherModel, hasUseBuiltinKey |-> TRUE, useBuiltinKey |-> FALSE]}

\* PUT /api/settings: INSERT ... ON CONFLICT (user_id) DO UPDATE
PutSettings(s, u, body) ==
    Arrives(s, [Request("putSettings", u, 0) EXCEPT !.out = <<body>>], FALSE, "upsert")
PutSettingsRuns(s) ==
    /\ req[s].type = "putSettings" /\ req[s].pc = "upsert"
    /\ LET body == req[s].out[1]
           row == [set |-> TRUE,
                   preferred_model |-> IF body.preferredModel = Unset
                                       THEN NoSettings.preferred_model
                                       ELSE body.preferredModel,
                   use_builtin_key |-> IF body.hasUseBuiltinKey
                                       THEN body.useBuiltinKey ELSE TRUE]
       IN  /\ user_settings' = [user_settings EXCEPT ![req[s].user] = row]
           /\ Respond(s, 200, <<SettingsJson(row)>>)
    /\ UNCHANGED <<conversations, recency, messages, nextId, users>>

\* jwt.sign({ id: user.id, email: user.email }, JWT_SECRET, ...)
Token(user) == [id |-> user.id, email |-> user.email]

\* email VARCHAR(255) UNIQUE NOT NULL: a row with this email can be inserted
EmailFree(email) == \A u \in users : u.email # email

\* signups and logins the handlers in flight may still complete
PendingSignups == Cardinality({s \in Slots : req[s].type = "signup"})
PendingLogins == Cardinality({s \in Slots : req[s].type = "login"})
RECURSIVE SumLogins(_)
SumLogins(us) ==
    IF us = {} THEN 0
    ELSE LET u == CHOOSE x \in us : TRUE IN u.last_login + SumLogins(us \ {u})

\* POST /api/auth/signup; email 0 and password NoPassword stand for a missing field
Signup(s, hasName, email, password) ==
    LET invalid == ~hasName \/ email = 0 \/ password = NoPassword
                      \/ password < MinPasswordLength
    IN  /\ ~invalid => Cardinality(users) + PendingSignups < MaxUsers
        /\ Arrives(s, [Request("signup", 0, 0) EXCEPT !.email = email, !.password = password],
                   invalid, "select")
SignupRuns(s) ==
    /\ req[s].type = "signup"
    /\ \/ /\ req[s].pc = "select"
          /\ UnchangedTables
          /\ IF \E u \in users : u.email = req[s].email
             THEN Respond(s, 400, <<>>)
             ELSE Goto(s, [req[s] EXCEPT !.pc = "hash"])
       \/ /\ req[s].pc = "hash"
          /\ UnchangedTables
          /\ Goto(s, [req[s] EXCEPT !.pc = "insert", !.out = <<Hash(req[s].password)>>])
       \/ /\ req[s].pc = "insert"
          /\ UNCHANGED <<conversations, recency, messages, nextId, user_settings>>
          /\ IF EmailFree(req[s].email)
             THEN LET user == [id |-> Cardinality(users) + 1, email |-> req[s].email,
                               password_hash |-> req[s].out[1], is_active |-> TRUE,
                               last_login |-> 0]
                  IN  /\ users' = users \cup {user}
                      /\ Respond(s, 201, <<Token(user)>>)
             ELSE \* the UNIQUE constraint is violated: the error is caught
                  /\ UNCHANGED users
                  /\ Respond(s, 500, <<>>)

\* POST /api/auth/login
Login(s, email, password) ==
    LET invalid == email = 0 \/ password = NoPassword
    IN  /\ ~invalid => SumLogins(users) + PendingLogins < MaxLogins
        /\ Arrives(s, [Request("login", 0, 0) EXCEPT !.email = email, !.password = password],
                   invalid, "select")
LoginRuns(s) ==
    /\ req[s].type = "login"
    /\ \/ /\ req[s].pc = "select"
          /\ UnchangedTables
          /\ LET rows == {u \in users : u.email = req[s].email /\ u.is_active}
             IN  IF rows = {}
                 THEN Respond(s, 401, <<>>)
                 ELSE Goto(s, [req[s] EXCEPT !.pc = "compare",
                                             !.out = <<CHOOSE u \in rows : TRUE>>])
       \/ /\ req[s].pc = "compare"
          /\ UnchangedTables
          /\ IF Compare(req[s].password, req[s].out[1].password_hash)
             THEN Goto(s, [req[s] EXCEPT !.pc = "update"])
             ELSE Respond(s, 401, <<>>)
       \/ /\ req[s].pc = "update"
          /\ users' = {IF u.id = req[s].out[1].id THEN [u EXCEPT !.last_login = @ + 1] ELSE u :
                          u \in users}
          /\ UNCHANGED <<conversations, recency, messages, nextId, user_settings>>
          /\ Respond(s, 200, <<Token(req[s].out[1])>>)

(***************************************************************************)
(* PART III - THE CLIENT'S CONVERSATIONS, FOR AN AUTHENTICATED USER         *)
(* A request of the client is handled by the server and answered in one     *)
(* step, at any moment after the client issued it.                          *)
(***************************************************************************)
MaxSaves == 3       \* saveCurrentConversation calls ever started

VARIABLES
    currentConversationId,   \* 0 is null
    clientConversations,     \* the array conversations of script.js, in sidebar order
    isCreatingConversation,
    saves,                   \* per saveCurrentConversation call, where it is and its locals
    nSaves,                  \* calls started so far
    loader,                  \* the loadConversation call in progress
    now,                     \* the clock new Date() and NOW() read
    updated_at,              \* per conversation id, the column conversations.updated_at
    isGuest,                 \* sessionStorage: isGuest === 'true'
    hasToken,                \* localStorage: authToken is set
    storage,                 \* sessionStorage: the list under conversations_<email>
    deleter,                 \* the deleteConversation call in progress
    starter,                 \* startChat: "none" (not called yet), "list" or "done"
    chatCreations            \* history: the calls of createNewConversationOnFirstMessage
                             \* made since #messages was last cleared

saveVars == <<currentConversationId, clientConversations, isCreatingConversation, saves,
              nSaves, loader, now, updated_at, isGuest, hasToken, storage, deleter, starter,
              chatCreations>>

\* the variables of part I that the conversation functions neither read nor write
generationVars == <<isGeneratingResponse, abortController, pendingMessages, batchTimeout,
                    orphanTimers, sendBtn, modelsChecked, activeIdx, useBuiltin, batch,
                    nBatches, nSent>>

SaveIds == 1..MaxSaves
TheUser == 1
GeneratedTitle == Str(7, 5)     \* a title generateConversationTitle returns

\* a call of saveCurrentConversation: pc is "free" (not started), "create", "post", "title"
\* or "put" (the request it awaits) or "done"; conv: the id of its conversation object;
\* dom: its domMessages; new: its newMessages; target: the id in the URL of its PUT
NoSave == [pc |-> "free", conv |-> 0, dom |-> <<>>, new |-> <<>>, first |-> Empty,
           title |-> Empty, target |-> 0]
DoneSave == [NoSave EXCEPT !.pc = "done"]
NoLoader == [pc |-> "idle", target |-> 0, save |-> 0]
NoDeleter == [pc |-> "idle", target |-> 0]

\* variant of IsGuestMode for a client without the guest branches
NeverGuest == FALSE

\* isGuestMode()
IsGuestMode == isGuest

\* apiRequest throws before its fetch when there is no token
ApiRequestThrows == ~hasToken

\* 'conv_' + Date.now() at time t; the server's ids are positive
LocalId(t) == 0 - t
LocalConversation(t) ==
    [id |-> LocalId(t), title |-> NewChatTitle, updatedAt |-> t, messages |-> <<>>]

\* the text of a message element, and the element rendered from a stored message
DomMessage(e) ==
    Msg(IF e.role = "user" THEN "user" ELSE "ai",
        Str(IF e.role = "user" THEN e.ref
            ELSE IF e.kind = "response" THEN MaxSends + e.ref
            ELSE MaxSends + MaxBatches + e.ref, 1))
DomMessages(c) == [k \in 1..Len(c) |-> DomMessage(c[k])]
Rendered(m) ==
    IF m.role = "user" THEN UserEntry(m.content.id)
    ELSE IF m.content.id <= MaxSends + MaxBatches
         THEN AiEntry(m.content.id - MaxSends, "response", <<>>)
         ELSE AiEntry(m.content.id - MaxSends - MaxBatches, "error", <<>>)

\* conversations.find(c => c.id === id): its index, 0 when there is none
RECURSIVE FindFrom(_, _, _)
FindFrom(list, id, k) ==
    IF k > Len(list) THEN 0 ELSE IF list[k].id = id THEN k ELSE FindFrom(list, id, k + 1)
Find(list, id) == FindFrom(list, id, 1)

\* conversations.filter(c => c.id !== id)
Without(list, id) == SelectSeq(list, LAMBDA c : c.id # id)

\* conversations.sort((a, b) => dateB - dateA): a stable sort, latest updatedAt first
RECURSIVE InsertByUpdatedAt(_, _)
InsertByUpdatedAt(c, sorted) ==
    IF sorted = <<>> THEN <<c>>
    ELSE IF c.updatedAt > Head(sorted).updatedAt THEN <<c>> \o sorted
    ELSE <<Head(sorted)>> \o InsertByUpdatedAt(c, Tail(sorted))
RECURSIVE SortByUpdatedAt(_)
SortByUpdatedAt(list) ==
    IF list = <<>> THEN <<>>
    ELSE InsertByUpdatedAt(list[Len(list)], SortByUpdatedAt(SubSeq(list, 1, Len(list) - 1)))

FirstUserMessage(dom) ==
    LET us == SelectSeq(dom, LAMBDA m : m.role = "user")
    IN  IF us = <<>> THEN Empty ELSE us[1].content

\* saveCurrentConversation from "if (!currentConversationId) return" to its next await or
\* its end, with currentConversationId = cid, conversations = list and the messages dom
SaveBody(cid, list, dom) ==
    LET i == Find(list, cid)
    IN  IF cid = 0 \/ i = 0 THEN [save |-> DoneSave, list |-> list]
        ELSE LET existing == list[i].messages
                 new == SubSeq(dom, Len(existing) + 1, Len(dom))
             IN  IF new # <<>>
                 THEN [save |-> [NoSave EXCEPT !.pc = "post", !.conv = cid, !.dom = dom,
                                               !.new = new],
                       list |-> list]
                 ELSE [save |-> IF list[i].title = NewChatTitle /\ FirstUserMessage(dom) # Empty
                                THEN [NoSave EXCEPT !.pc = "title", !.conv = cid,
                                                    !.first = FirstUserMessage(dom)]
                                ELSE DoneSave,
                       list |-> [list EXCEPT ![i].messages = dom]]

\* the guest branch of saveCurrentConversation at time t: the list afterwards
GuestSaveBody(cid, list, dom, t) ==
    LET i == Find(list, cid)
        title == IF list[i].title = NewChatTitle /\ FirstUserMessage(dom) # Empty
                 THEN TitlePreview(FirstUserMessage(dom)) ELSE list[i].title
    IN  [list EXCEPT ![i] = [@ EXCEPT !.messages = dom, !.updatedAt = t, !.title = title]]

\* variant of MustCreate without the flag isCreatingConversation
MustCreateUnflagged(c) == currentConversationId = 0 /\ Len(c) > 0

\* saveCurrentConversation: the test before createNewConversationOnFirstMessage
MustCreate(c) == currentConversationId = 0 /\ Len(c) > 0 /\ ~isCreatingConversation

\* a call of saveCurrentConversation up to its first await, the elements of #messages being
\* c: the record of the call, the list, currentConversationId, isCreatingConversation, the
\* stored list and the clock afterwards, and whether it called
\* createNewConversationOnFirstMessage
SaveCall(c) ==
    LET dom == DomMessages(c)
        create == MustCreate(c)
        same == [save |-> DoneSave, list |-> clientConversations,
                 cid |-> currentConversationId, flag |-> isCreatingConversation,
                 storage |-> storage, now |-> now, creates |-> create]
    IN  IF IsGuestMode
        THEN \* createNewConversationOnFirstMessage returns without a request
             LET t == IF create THEN now + 1 ELSE now
                 cid == IF create THEN LocalId(t) ELSE currentConversationId
                 list == IF create THEN <<LocalConversation(t)>> \o clientConversations
                         ELSE clientConversations
                 made == [same EXCEPT !.list = list, !.cid = cid, !.now = t,
                                      !.storage = IF create THEN list ELSE storage]
             IN  IF cid = 0 \/ Find(list, cid) = 0 THEN made
                 ELSE LET saved == GuestSaveBody(cid, list, dom, t + 1)
                      IN  [made EXCEPT !.list = saved, !.storage = saved, !.now = t + 1]
        ELSE IF create
             THEN [same EXCEPT !.save = [NoSave EXCEPT !.pc = "create"], !.flag = TRUE]
             ELSE LET B == SaveBody(currentConversationId, clientConversations, dom)
                  IN  [same EXCEPT !.save = B.save, !.list = B.list]

\* saveCurrentConversation() is called; what becomes of currentConversationId is the caller's
SaveStarts(c) ==
    /\ nSaves < MaxSaves
    /\ nSaves' = nSaves + 1
    /\ LET R == SaveCall(c)
       IN  /\ saves' = [saves EXCEPT ![nSaves + 1] = R.save]
           /\ clientConversations' = R.list
           /\ isCreatingConversation' = R.flag
           /\ storage' = R.storage
           /\ now' = R.now

\* appendUser and appendAI: if (autoSave) saveCurrentConversation()
AutoSave ==
    IF chat' # chat
    THEN /\ SaveStarts(chat')
         /\ currentConversationId' = SaveCall(chat').cid
         /\ chatCreations' = chatCreations + (IF SaveCall(chat').creates THEN 1 ELSE 0)
         /\ UNCHANGED <<loader, updated_at, isGuest, hasToken, deleter, starter>>
    ELSE UNCHANGED saveVars

\* POST /api/conversations of createNewConversationOnFirstMessage is answered
CreateResponds(k) ==
    /\ saves[k].pc = "create"
    /\ ~ApiRequestThrows
    /\ nextId < MaxConvs
    /\ LET id == nextId + 1
           created == [id |-> id, title |-> NewChatTitle, updatedAt |-> now + 1,
                       messages |-> <<>>]
           B == SaveBody(id, <<created>> \o clientConversations, DomMessages(chat))
       IN  /\ nextId' = id
           /\ conversations' = conversations \cup
                  {[id |-> id, user_id |-> TheUser, title |-> NewChatTitle]}
           /\ recency' = <<id>> \o recency
           /\ now' = now + 1
           /\ updated_at' = [updated_at EXCEPT ![id] = now + 1]
           /\ currentConversationId' = id
           /\ isCreatingConversation' = FALSE
           /\ clientConversations' = B.list
           /\ saves' = [saves EXCEPT ![k] = B.save]
    /\ UNCHANGED <<messages, users, user_settings, req, resp, nSaves, loader,
                   isGuest, hasToken, storage, deleter, starter, chatCreations>>

\* POST /api/conversations fails: the catch of createNewConversationOnFirstMessage makes a
\* local conversation, and the save goes on with it
CreateFails(k) ==
    /\ saves[k].pc = "create"
    /\ LET t == now + 1
           B == SaveBody(LocalId(t), <<LocalConversation(t)>> \o clientConversations,
                         DomMessages(chat))
       IN  /\ now' = t
           /\ currentConversationId' = LocalId(t)
           /\ isCreatingConversation' = FALSE
           /\ clientConversations' = B.list
           /\ saves' = [saves EXCEPT ![k] = B.save]
    /\ UNCHANGED <<serverVars, nSaves, loader, updated_at, isGuest, hasToken, storage,
                   deleter, starter, chatCreations>>

\* the rows of conversation id after the add handlers inserted msgs
StoreMessages(id, msgs) ==
    messages[id] \o [k \in 1..Len(msgs) |-> MessageRow(id, msgs[k], MaxOrder(id) + k)]

\* after the client set conversation.messages and conversation.updatedAt: the title
AfterPost(s, list) ==
    LET i == Find(list, s.conv)
        single == Len(s.new) = 1
        retitle == /\ i # 0 /\ list[i].title = NewChatTitle
                   /\ IF single THEN s.new[1].role = "user"
                      ELSE FirstUserMessage(s.dom) # Empty
    IN  IF retitle
        THEN [s EXCEPT !.pc = "title",
                       !.first = IF single THEN s.new[1].content ELSE FirstUserMessage(s.dom)]
        ELSE DoneSave

\* POST /api/conversations/:id/messages or .../messages/bulk of save k is answered
PostResponds(k) ==
    /\ saves[k].pc = "post"
    /\ LET s == saves[k]
           i == Find(clientConversations, s.conv)
       IN  IF ConvCheck(s.conv, TheUser) /\ ~ApiRequestThrows
           THEN /\ TotalRows + Len(s.new) <= MaxRows
                /\ messages' = [messages EXCEPT ![s.conv] = StoreMessages(s.conv, s.new)]
                /\ recency' = Touch(s.conv, recency)
                /\ conversations' =
                       IF \E j \in 1..Len(s.new) :
                              s.new[j].role = "user" /\ MaxOrder(s.conv) + j = 1
                       THEN TitleIfNew(s.conv, TitlePreview(s.new[1].content))
                       ELSE conversations
                /\ now' = now + 1
                /\ updated_at' = [updated_at EXCEPT ![s.conv] = now + 1]
                /\ LET list == IF i = 0 THEN clientConversations
                               ELSE [clientConversations EXCEPT ![i].messages = s.dom,
                                                                ![i].updatedAt = now + 1]
                   IN  /\ clientConversations' = list
                       /\ saves' = [saves EXCEPT ![k] = AfterPost(s, list)]
           ELSE \* 404: apiRequest throws, the catch keeps the messages locally
                /\ UNCHANGED <<messages, recency, conversations, now, updated_at>>
                /\ clientConversations' =
                       IF i = 0 THEN clientConversations
                       ELSE [clientConversations EXCEPT ![i].messages = s.dom]
                /\ saves' = [saves EXCEPT ![k] = DoneSave]
    /\ UNCHANGED <<nextId, users, user_settings, req, resp, currentConversationId,
                   isCreatingConversation, nSaves, loader, isGuest, hasToken, storage,
                   deleter, starter, chatCreations>>

\* await generateConversationTitle(...) of save k settles; generated: it returned a title,
\* otherwise the first 50 characters are the title
TitleGenerated(k, generated) ==
    /\ saves[k].pc = "title"
    /\ saves' = [saves EXCEPT ![k] =
                    [@ EXCEPT !.pc = "put", !.target = currentConversationId,
                              !.title = IF generated THEN GeneratedTitle
                                        ELSE TitlePreview(saves[k].first)]]
    /\ UNCHANGED <<serverVars, currentConversationId, clientConversations,
                   isCreatingConversation, nSaves, loader, now, updated_at,
                   isGuest, hasToken, storage, deleter, starter, chatCreations>>

\* PUT /api/conversations/${currentConversationId} of save k is answered
PutResponds(k) ==
    /\ saves[k].pc = "put"
    /\ LET s == saves[k]
           i == Find(clientConversations, s.conv)
       IN  IF ConvCheck(s.target, TheUser) /\ ~ApiRequestThrows
           THEN /\ conversations' = {IF c.id = s.target THEN [c EXCEPT !.title = s.title]
                                     ELSE c : c \in conversations}
                /\ recency' = Touch(s.target, recency)
                /\ now' = now + 1
                /\ updated_at' = [updated_at EXCEPT ![s.target] = now + 1]
                /\ clientConversations' =
                       IF i = 0 THEN clientConversations
                       ELSE [clientConversations EXCEPT ![i].title = s.title]
           ELSE \* the request fails, and so does the PUT of the fallback title
                UNCHANGED <<conversations, recency, now, updated_at, clientConversations>>
    /\ saves' = [saves EXCEPT ![k] = DoneSave]
    /\ UNCHANGED <<messages, nextId, users, user_settings, req, resp, currentConversationId,
                   isCreatingConversation, nSaves, loader, isGuest, hasToken, storage,
                   deleter, starter, chatCreations>>

\* variant of CreateNewConversation that keeps the conversation open
KeepConversation ==
    /\ UNCHANGED currentConversationId
    /\ conversationHistory' = <<>>
    /\ chat' = <<>>
    /\ chatCreations' = 0

\* createNewConversation(): no conversation is made, the chat is cleared
CreateNewConversation ==
    /\ currentConversationId' = 0
    /\ conversationHistory' = <<>>
    /\ chat' = <<>>
    /\ chatCreations' = 0

\* newChat(): saves the displayed conversation without waiting, then createNewConversation()
NewChat ==
    /\ IF currentConversationId # 0 /\ Len(chat) > 0
       THEN SaveStarts(chat)
       ELSE UNCHANGED <<saves, nSaves, isCreatingConversation, clientConversations,
                        storage, now>>
    /\ CreateNewConversation
    /\ UNCHANGED <<loader, updated_at, isGuest, hasToken, deleter, starter, serverVars, obs>>
    /\ UNCHANGED generationVars

\* the messages msgs are rendered and become conversationHistory
Show(msgs) ==
    /\ conversationHistory' =
           [k \in 1..Len(msgs) |-> [role |-> msgs[k].role, content |-> msgs[k].content]]
    /\ chat' = [k \in 1..Len(msgs) |-> Rendered(msgs[k])]
    /\ chatCreations' = 0

\* loadConversation from "let conversation = conversations.find(...)" to its await or end
LoadBody(target, list) ==
    LET i == Find(list, target)
    IN  IF i = 0
        THEN /\ loader' = NoLoader
             /\ UNCHANGED <<currentConversationId, chat, conversationHistory, chatCreations>>
        ELSE /\ currentConversationId' = target
             /\ IF IsGuestMode
                THEN loader' = NoLoader /\ Show(list[i].messages)
                ELSE /\ loader' = [pc |-> "fetch", target |-> target, save |-> 0]
                     /\ UNCHANGED <<chat, conversationHistory, chatCreations>>

\* loadConversation(target) up to its first await
LoadConversation(target) ==
    /\ loader.pc = "idle"
    /\ Find(clientConversations, target) # 0
    /\ IF currentConversationId # 0 /\ Len(chat) > 0
       THEN /\ SaveStarts(chat)
            /\ IF saves'[nSaves + 1].pc = "done"
               THEN LoadBody(target, clientConversations')
               ELSE /\ loader' = [pc |-> "save", target |-> target, save |-> nSaves + 1]
                    /\ UNCHANGED <<currentConversationId, chat, conversationHistory,
                                   chatCreations>>
       ELSE /\ LoadBody(target, clientConversations)
            /\ UNCHANGED <<saves, nSaves, isCreatingConversation, clientConversations,
                           storage, now>>
    /\ UNCHANGED <<updated_at, isGuest, hasToken, deleter, starter, serverVars, obs>>
    /\ UNCHANGED generationVars

\* await saveCurrentConversation() of loadConversation settles
LoaderSaved ==
    /\ loader.pc = "save"
    /\ saves[loader.save].pc = "done"
    /\ LoadBody(loader.target, clientConversations)
    /\ UNCHANGED <<saves, nSaves, isCreatingConversation, clientConversations, now,
                   updated_at, isGuest, hasToken, storage, deleter, starter, serverVars, obs>>
    /\ UNCHANGED generationVars

\* GET /api/conversations/:id of loadConversation is answered and the messages are rendered
ConversationLoaded ==
    /\ loader.pc = "fetch"
    /\ Find(clientConversations, loader.target) # 0
    /\ LET i == Find(clientConversations, loader.target)
           rows == OrderByMessageOrder(RowsOf(loader.target))
           data == [k \in 1..Len(rows) |-> Msg(rows[k].role, rows[k].content)]
           shown == IF ConvCheck(loader.target, TheUser) /\ ~ApiRequestThrows THEN data
                    ELSE clientConversations[i].messages
       IN  /\ clientConversations' = [clientConversations EXCEPT ![i].messages = shown]
           /\ Show(shown)
    /\ loader' = NoLoader
    /\ UNCHANGED <<currentConversationId, saves, nSaves, isCreatingConversation, now,
                   updated_at, isGuest, hasToken, storage, deleter, starter, serverVars, obs>>
    /\ UNCHANGED generationVars

\* GET /api/conversations as loadConversations maps it: latest updated_at first, no messages
ServerList ==
    LET mine == SelectSeq(recency, LAMBDA id : ConvRow(id).user_id = TheUser)
    IN  [k \in 1..Len(mine) |-> [id |-> mine[k], title |-> ConvRow(mine[k]).title,
                                 updatedAt |-> updated_at[mine[k]], messages |-> <<>>]]

\* startChat(): an empty chat, then loadConversations()
StartChat ==
    /\ starter = "none"
    /\ currentConversationId' = 0
    /\ conversationHistory' = <<>>
    /\ chat' = <<>>
    /\ chatCreations' = 0
    /\ IF IsGuestMode
       THEN starter' = "done" /\ clientConversations' = SortByUpdatedAt(storage)
       ELSE starter' = "list" /\ UNCHANGED clientConversations
    /\ UNCHANGED <<isCreatingConversation, saves, nSaves, loader, now, updated_at, isGuest,
                   hasToken, storage, deleter, serverVars, obs>>
    /\ UNCHANGED generationVars

\* the conversation with id target is closed if it is the open one
ForgetCurrent(target) ==
    IF currentConversationId = target
    THEN /\ currentConversationId' = 0
         /\ conversationHistory' = <<>>
         /\ chat' = <<>>
         /\ chatCreations' = 0
    ELSE UNCHANGED <<currentConversationId, conversationHistory, chat, chatCreations>>

\* the client's deleteConversation(target), confirmed, up to its first request
ClientDeleteConversation(target) ==
    /\ deleter.pc = "idle"
    /\ Find(clientConversations, target) # 0
    /\ IF IsGuestMode
       THEN /\ clientConversations' = Without(clientConversations, target)
            /\ storage' = Without(clientConversations, target)
            /\ ForgetCurrent(target)
            /\ UNCHANGED deleter
       ELSE /\ deleter' = [pc |-> "delete", target |-> target]
            /\ UNCHANGED <<clientConversations, storage, currentConversationId,
                           conversationHistory, chat, chatCreations>>
    /\ UNCHANGED <<isCreatingConversation, saves, nSaves, loader, now, updated_at, isGuest,
                   hasToken, starter, serverVars, obs>>
    /\ UNCHANGED generationVars

\* DELETE /api/conversations/:id of deleteConversation is answered with success
DeleteResponds ==
    /\ deleter.pc = "delete"
    /\ ConvCheck(deleter.target, TheUser) /\ ~ApiRequestThrows
    /\ conversations' = {c \in conversations : c.id # deleter.target}
    /\ messages' = Cascade(deleter.target)
    /\ recency' = SelectSeq(recency, LAMBDA x : x # deleter.target)
    /\ clientConversations' = Without(clientConversations, deleter.target)
    /\ ForgetCurrent(deleter.target)
    /\ deleter' = [pc |-> "list", target |-> deleter.target]
    /\ UNCHANGED <<nextId, users, user_settings, req, resp, isCreatingConversation, saves,
                   nSaves, loader, now, updated_at, isGuest, hasToken, storage, starter, obs>>
    /\ UNCHANGED generationVars

\* the DELETE request fails (no answer, 404 or 500): the catch of deleteConversation
DeleteFails ==
    /\ deleter.pc = "delete"
    /\ clientConversations' = Without(clientConversations, deleter.target)
    /\ deleter' = NoDeleter
    /\ UNCHANGED <<currentConversationId, isCreatingConversation, saves, nSaves, loader, now,
                   updated_at, isGuest, hasToken, storage, starter, chatCreations,
                   serverVars, obs>>
    /\ UNCHANGED clientVars

\* GET /api/conversations of a loadConversations call is answered (ok) or fails;
\* the call was made by startChat (byStart) or by deleteConversation
ListResponds(byStart, ok) ==
    /\ IF byStart
       THEN starter = "list" /\ starter' = "done" /\ UNCHANGED deleter
       ELSE deleter.pc = "list" /\ deleter' = NoDeleter /\ UNCHANGED starter
    /\ ok => ~ApiRequestThrows
    /\ clientConversations' = IF ok THEN ServerList ELSE <<>>
    /\ UNCHANGED <<currentConversationId, isCreatingConversation, saves, nSaves, loader, now,
                   updated_at, isGuest, hasToken, storage, chatCreations, serverVars, obs>>
    /\ UNCHANGED clientVars

\* no conversation is open, none was ever listed, no call is in progress; the user is
\* logged in and startChat has returned
SaveInit ==
    /\ currentConversationId = 0
    /\ clientConversations = <<>>
    /\ isCreatingConversation = FALSE
    /\ saves = [k \in SaveIds |-> NoSave]
    /\ nSaves = 0
    /\ loader = NoLoader
    /\ now = 0
    /\ updated_at = [id \in ConvIds |-> 0]
    /\ isGuest = FALSE
    /\ hasToken = TRUE
    /\ storage = <<>>
    /\ deleter = NoDeleter
    /\ starter = "done"
    /\ chatCreations = 0

vars == <<clientVars, obs, serverVars, saveVars>>

Answers == {"ok", "e404", "e401", "eOther", "neterr"}

\* the client under every interleaving of its event handlers and pending awaits
ClientNext ==
    \/ \E empty \in BOOLEAN : SendMessage(empty) /\ UNCHANGED <<obs, serverVars, saveVars>>
    \/ \E orphan \in BOOLEAN : BatchTimerFires(orphan) /\ UNCHANGED <<obs, serverVars, saveVars>>
    \/ StopAIResponse /\ UNCHANGED <<obs, serverVars, saveVars>>
    \/ \E empty \in BOOLEAN : KeydownEnter(empty) /\ UNCHANGED <<obs, serverVars, saveVars>>
    \/ \E b \in Batches, avail \in ListModelsResults : ModelsChecked(b, avail) /\ UNCHANGED <<obs, serverVars, saveVars>>
    \/ \E b \in Batches, ans \in Answers : FetchResponds(b, ans) /\ UNCHANGED <<obs, serverVars, saveVars>>
    \/ \E b \in Batches, parsed \in BOOLEAN :
           ErrorBodyRead(b, parsed) /\ UNCHANGED <<obs, serverVars, saveVars>>
    \/ \E b \in Batches : FetchAborted(b) /\ UNCHANGED <<obs, serverVars, saveVars>>
    \/ \E b \in Batches, wf \in BOOLEAN, text \in AnswerTexts, rejects \in BOOLEAN :
           BodyRead(b, wf, text, rejects) /\ UNCHANGED <<obs, serverVars, saveVars>>

Init == ClientInit /\ obs = NoObs /\ ServerInit /\ SaveInit

Spec == Init /\ [][ClientNext]_vars

\* one generation observed in isolation: the messages of a chat are sent, their batch is
\* generated and possibly stopped; the model-list flags of earlier generations are arbitrary
GenInit ==
    /\ isGeneratingResponse = FALSE
    /\ abortController = 0
    /\ pendingMessages = <<>>
    /\ batchTimeout = "null"
    /\ orphanTimers = 0
    /\ sendBtn = "Send"
    /\ chat = <<>>
    /\ conversationHistory = <<>>
    /\ modelsChecked \in SUBSET {Prefix(StoredKeys[i]) : i \in 1..NumKeys}
    /\ activeIdx \in 1..NumKeys
    /\ useBuiltin \in BOOLEAN
    /\ batch = [b \in Batches |-> NoBatch]
    /\ nBatches = 0
    /\ nSent = 0
    /\ obs = NoObs
    /\ ServerInit
    /\ SaveInit

GenNext ==
    \/ \E empty \in BOOLEAN : nBatches = 0 /\ SendMessage(empty) /\ UNCHANGED <<obs, serverVars, saveVars>>
    \/ \E orphan \in BOOLEAN : BatchTimerFires(orphan) /\ Observe("none", <<>>, <<>>) /\ UNCHANGED <<serverVars, saveVars>>
    \/ StopAIResponse /\ UNCHANGED <<obs, serverVars, saveVars>>
    \/ \E avail \in ListModelsResults : ModelsChecked(1, avail) /\ Observe("none", avail, <<>>) /\ UNCHANGED <<serverVars, saveVars>>
    \/ \E ans \in Answers :
           \* a response counts as answered once its body was read
           /\ FetchResponds(1, ans)
           /\ Observe(IF ans = "neterr" THEN ans ELSE "none", <<>>, <<>>)
           /\ UNCHANGED <<serverVars, saveVars>>
    \/ \E parsed \in BOOLEAN :
           /\ ErrorBodyRead(1, parsed)
           /\ Observe(IF batch[1].status = "e404" /\ ~parsed THEN "eOther" ELSE batch[1].status,
                      <<>>, <<>>)
           /\ UNCHANGED <<serverVars, saveVars>>
    \/ FetchAborted(1) /\ Observe("none", <<>>, <<>>) /\ UNCHANGED <<serverVars, saveVars>>
    \/ \E wf \in BOOLEAN, text \in AnswerTexts, rejects \in BOOLEAN :
           /\ BodyRead(1, wf, text, rejects)
           /\ Observe(IF rejects THEN "none" ELSE IF wf THEN "okText" ELSE "okBad", <<>>, text) /\ UNCHANGED <<serverVars, saveVars>>

SpecGen == GenInit /\ [][GenNext]_vars

Rejections == {"none", "bad"}
Routes == {"list", "create", "get", "put", "delete", "add", "messages", "bulk",
           "verify", "getSettings", "putSettings"}
Titles == {Empty, GivenTitle}
SuppliedOrders == {0, 1}    \* a message_order of the request body; 0: none
AddBodies == BodyMsgs \cup {Msg("", ShortText), Msg("user", Empty)}
RECURSIVE SeqsUpTo(_, _)
SeqsUpTo(S, n) ==
    IF n = 0 THEN {<<>>}
    ELSE LET shorter == SeqsUpTo(S, n - 1)
         IN  shorter \cup {Append(q, x) : q \in {t \in shorter : Len(t) = n - 1}, x \in S}
BulkBodies == SeqsUpTo(BodyMsgs, MaxBulk)
\* the bodies of the runs that are not about the order of the rows
FewBulkBodies == {<<>>, <<Msg("user", LongText)>>, <<Msg("ai", ShortText), Msg("user", LongText)>>}
FewAddBodies == {Msg("user", LongText), Msg("ai", ShortText), Msg("", ShortText), Msg("bot", ShortText)}

\* the client plays no part in the runs of the server
ClientIdle == UNCHANGED <<clientVars, obs, saveVars>>
ClientAtRest == ClientInit /\ activeIdx = 1 /\ useBuiltin /\ obs = NoObs /\ SaveInit
ServerStart == ClientAtRest /\ ServerInit

\* the caller awaits the response before it sends its next request
NoneInFlight == resp = NoResp /\ \A s \in Slots : req[s].pc = "idle"
ApiRequestReturns ==
    /\ resp # NoResp
    /\ resp' = NoResp
    /\ UNCHANGED <<conversations, recency, messages, nextId, users, user_settings, req>>

\* every route of the server, the requests of two users handled one after the other
ServerNext ==
    \/ \E type \in Routes, auth \in Rejections :
           NoneInFlight /\ AuthenticateTokenRejects(type, auth) /\ ClientIdle
    \/ \E u \in UserIds : NoneInFlight /\ ListConversations(1, u) /\ ClientIdle
    \/ ListConversationsRuns(1) /\ ClientIdle
    \/ \E u \in UserIds, title \in Titles :
           NoneInFlight /\ CreateConversation(1, u, title) /\ ClientIdle
    \/ CreateConversationRuns(1) /\ ClientIdle
    \/ \E u \in UserIds, id \in ConvIds : NoneInFlight /\ GetConversation(1, u, id) /\ ClientIdle
    \/ GetConversationRuns(1) /\ ClientIdle
    \/ \E u \in UserIds, id \in ConvIds, title \in Titles :
           NoneInFlight /\ UpdateConversation(1, u, id, title) /\ ClientIdle
    \/ UpdateConversationRuns(1) /\ ClientIdle
    \/ \E u \in UserIds, id \in ConvIds :
           NoneInFlight /\ DeleteConversation(1, u, id) /\ ClientIdle
    \/ DeleteConversationRuns(1) /\ ClientIdle
    \/ \E u \in UserIds, id \in ConvIds, m \in FewAddBodies :
           NoneInFlight /\ AddMessage(1, u, id, m, 0) /\ ClientIdle
    \/ AddMessageRuns(1) /\ ClientIdle
    \/ \E u \in UserIds, id \in ConvIds : NoneInFlight /\ GetMessages(1, u, id) /\ ClientIdle
    \/ GetMessagesRuns(1) /\ ClientIdle
    \/ \E u \in UserIds, id \in ConvIds, msgs \in FewBulkBodies :
           NoneInFlight /\ AddMessagesBulk(1, u, id, msgs, 0) /\ ClientIdle
    \/ AddMessagesBulkRuns(1) /\ ClientIdle
    \/ \E u \in UserIds : NoneInFlight /\ Verify(u) /\ ClientIdle
    \/ \E u \in UserIds : NoneInFlight /\ GetSettings(1, u) /\ ClientIdle
    \/ GetSettingsRuns(1) /\ ClientIdle
    \/ \E body \in SettingsBodies : NoneInFlight /\ PutSettings(1, 1, body) /\ ClientIdle
    \/ PutSettingsRuns(1) /\ ClientIdle
    \/ ApiRequestReturns /\ ClientIdle

SpecServer == ServerStart /\ [][ServerNext]_vars

\* one user's conversations filled by add requests handled one after the other
AddsNext ==
    \/ NoneInFlight /\ CreateConversation(1, 1, Empty) /\ ClientIdle
    \/ CreateConversationRuns(1) /\ ClientIdle
    \/ \E id \in ConvIds : NoneInFlight /\ DeleteConversation(1, 1, id) /\ ClientIdle
    \/ DeleteConversationRuns(1) /\ ClientIdle
    \/ \E id \in ConvIds, m \in AddBodies, supplied \in SuppliedOrders :
           NoneInFlight /\ AddMessage(1, 1, id, m, supplied) /\ ClientIdle
    \/ AddMessageRuns(1) /\ ClientIdle
    \/ \E id \in ConvIds, msgs \in BulkBodies, supplied \in SuppliedOrders :
           NoneInFlight /\ AddMessagesBulk(1, 1, id, msgs, supplied) /\ ClientIdle
    \/ AddMessagesBulkRuns(1) /\ ClientIdle
    \/ ApiRequestReturns /\ ClientIdle

SpecAdds == ServerStart /\ [][AddsNext]_vars

\* one user's add requests handled at the same time
RaceNext ==
    \/ \E s \in Slots : CreateConversation(s, 1, Empty) /\ ClientIdle
    \/ \E s \in Slots : CreateConversationRuns(s) /\ ClientIdle
    \/ \E s \in Slots, id \in ConvIds, m \in {Msg("user", LongText), Msg("ai", ShortText)} :
           AddMessage(s, 1, id, m, 0) /\ ClientIdle
    \/ \E s \in Slots : AddMessageRuns(s) /\ ClientIdle
    \/ \E s \in Slots, id \in ConvIds, msgs \in FewBulkBodies :
           AddMessagesBulk(s, 1, id, msgs, 0) /\ ClientIdle
    \/ \E s \in Slots : AddMessagesBulkRuns(s) /\ ClientIdle

SpecRace == ServerStart /\ [][RaceNext]_vars

\* the accounts at the start: none, or one that was deactivated
Emails == {1, 2}
AccountsAtStart == {{}, {UserRow(1, 1, GoodPassword, FALSE)}}
AuthStart ==
    /\ ClientAtRest
    /\ conversations = {}
    /\ recency = <<>>
    /\ messages = [id \in ConvIds |-> <<>>]
    /\ nextId = 0
    /\ users \in AccountsAtStart
    /\ user_settings = [u \in UserIds |-> NoSettings]
    /\ req = [s \in Slots |-> Idle]
    /\ resp = NoResp

\* signups and logins handled at the same time
AuthNext ==
    \/ \E s \in Slots, hasName \in BOOLEAN, email \in Emails \cup {0},
          password \in {NoPassword, ShortPassword, GoodPassword} :
           Signup(s, hasName, email, password) /\ ClientIdle
    \/ \E s \in Slots : SignupRuns(s) /\ ClientIdle
    \/ \E s \in Slots, email \in Emails \cup {0},
          password \in {NoPassword, GoodPassword, OtherPassword} :
           Login(s, email, password) /\ ClientIdle
    \/ \E s \in Slots : LoginRuns(s) /\ ClientIdle

SpecAuth == AuthStart /\ [][AuthNext]_vars

\* a message of an earlier session
OldMessage == Msg("user", Str(0, 1))

\* the page is loaded and loadConversations() has returned the list of the server, which
\* holds no conversation yet or two conversations of an earlier session
SaveStart ==
    /\ ClientInit /\ activeIdx = 1 /\ useBuiltin /\ obs = NoObs
    /\ users = TokenHolders
    /\ user_settings = [u \in UserIds |-> NoSettings]
    /\ req = [s \in Slots |-> Idle]
    /\ resp = NoResp
    /\ nextId \in {0, 2}
    /\ conversations = {[id |-> id, user_id |-> TheUser, title |-> GivenTitle] : id \in 1..nextId}
    /\ recency = [k \in 1..nextId |-> nextId + 1 - k]
    /\ messages = [id \in ConvIds |-> IF id <= nextId THEN <<MessageRow(id, OldMessage, 1)>>
                                      ELSE <<>>]
    /\ updated_at = [id \in ConvIds |-> IF id <= nextId THEN id ELSE 0]
    /\ now = nextId
    /\ clientConversations =
           [k \in 1..nextId |-> [id |-> recency[k], title |-> GivenTitle,
                                 updatedAt |-> updated_at[recency[k]], messages |-> <<>>]]
    /\ currentConversationId = 0
    /\ isCreatingConversation = FALSE
    /\ saves = [k \in SaveIds |-> NoSave]
    /\ nSaves = 0
    /\ loader = NoLoader
    /\ isGuest = FALSE
    /\ hasToken = TRUE
    /\ storage = <<>>
    /\ deleter = NoDeleter
    /\ starter = "done"
    /\ chatCreations = 0

\* the user chats, starts new chats and opens conversations while saves and generations
\* are in progress; every request to the AI service is answered OK
SaveNext ==
    \/ SendMessage(FALSE) /\ AutoSave /\ UNCHANGED <<obs, serverVars>>
    \/ BatchTimerFires(FALSE) /\ UNCHANGED <<obs, serverVars, saveVars>>
    \/ \E b \in Batches : ModelsChecked(b, <<1>>) /\ UNCHANGED <<obs, serverVars, saveVars>>
    \/ \E b \in Batches : FetchResponds(b, "ok") /\ UNCHANGED <<obs, serverVars, saveVars>>
    \/ \E b \in Batches : BodyRead(b, TRUE, <<1, 0>>, FALSE) /\ AutoSave
                               /\ UNCHANGED <<obs, serverVars>>
    \/ NewChat
    \/ \E target \in ConvIds : LoadConversation(target)
    \/ LoaderSaved
    \/ ConversationLoaded
    \/ \E k \in SaveIds : CreateResponds(k) /\ UNCHANGED <<clientVars, obs>>
    \/ \E k \in SaveIds : PostResponds(k) /\ UNCHANGED <<clientVars, obs>>
    \/ \E k \in SaveIds : TitleGenerated(k, TRUE) /\ UNCHANGED <<clientVars, obs>>
    \/ \E k \in SaveIds : PutResponds(k) /\ UNCHANGED <<clientVars, obs>>

SpecSave == SaveStart /\ [][SaveNext]_vars

\* what a guest session of an earlier page load left in sessionStorage: two conversations
\* in the order of the list, the older one saved last
StoredGuestList ==
    <<[id |-> LocalId(2), title |-> GivenTitle, updatedAt |-> 2, messages |-> <<OldMessage>>],
      [id |-> LocalId(1), title |-> GivenTitle, updatedAt |-> 3, messages |-> <<OldMessage>>]>>

\* the page is loaded and checkAuthentication is about to call startChat: a logged-in user,
\* or a guest with or without a token left in localStorage; the server holds no
\* conversation yet
ListStart ==
    /\ ClientInit /\ activeIdx = 1 /\ useBuiltin /\ obs = NoObs
    /\ users = TokenHolders
    /\ user_settings = [u \in UserIds |-> NoSettings]
    /\ req = [s \in Slots |-> Idle]
    /\ resp = NoResp
    /\ isGuest \in BOOLEAN
    /\ hasToken \in (IF isGuest THEN BOOLEAN ELSE {TRUE})
    /\ storage \in (IF isGuest THEN {<<>>, StoredGuestList} ELSE {<<>>})
    /\ nextId = 0
    /\ conversations = {}
    /\ recency = <<>>
    /\ messages = [id \in ConvIds |-> <<>>]
    /\ updated_at = [id \in ConvIds |-> 0]
    /\ now = (IF isGuest THEN 3 ELSE 0)
    /\ clientConversations = <<>>
    /\ currentConversationId = 0
    /\ isCreatingConversation = FALSE
    /\ saves = [k \in SaveIds |-> NoSave]
    /\ nSaves = 0
    /\ loader = NoLoader
    /\ deleter = NoDeleter
    /\ starter = "none"
    /\ chatCreations = 0

\* the chat is displayed: startChat has run up to its await
Started == starter # "none"

\* no call in progress holds a conversation object of the list
NoObjectHeld ==
    /\ loader.pc = "idle"
    /\ \A k \in SaveIds : saves[k].pc \in {"free", "create", "done"}

\* the conversations the sidebar lists
ListedIds == {clientConversations[k].id : k \in 1..Len(clientConversations)}

\* the user chats, starts new chats, opens and deletes conversations; every request is
\* answered or fails; the list is replaced, and a conversation deleted, only while no
\* call holds one of its objects
ListNext ==
    \/ StartChat
    \/ \E byStart, ok \in BOOLEAN : NoObjectHeld /\ ListResponds(byStart, ok)
    \/ Started /\ SendMessage(FALSE) /\ AutoSave /\ UNCHANGED <<obs, serverVars>>
    \/ Started /\ NewChat
    \/ \E target \in ListedIds : Started /\ LoadConversation(target)
    \/ LoaderSaved
    \/ ConversationLoaded
    \/ \E target \in ListedIds : Started /\ NoObjectHeld /\ ClientDeleteConversation(target)
    \/ DeleteResponds
    \/ DeleteFails
    \/ \E k \in SaveIds : CreateResponds(k) /\ UNCHANGED <<clientVars, obs>>
    \/ \E k \in SaveIds : CreateFails(k) /\ UNCHANGED <<clientVars, obs>>
    \/ \E k \in SaveIds : PostResponds(k) /\ UNCHANGED <<clientVars, obs>>
    \/ \E k \in SaveIds : TitleGenerated(k, TRUE) /\ UNCHANGED <<clientVars, obs>>
    \/ \E k \in SaveIds : PutResponds(k) /\ UNCHANGED <<clientVars, obs>>

SpecList == ListStart /\ [][ListNext]_vars

(***************************************************************************)
(* Properties of the client                                                *)
(***************************************************************************)

\* C1: in every reachable state at most one upstream generation request is in flight
C1_AtMostOneRequestInFlight == Cardinality(InFlight) <= 1

\* C4: once a request of a tryGenerateWithKey call was answered 401 or 403, that call
\* issues no further request: it is not found waiting for a later model's answer
C4_AuthFailureIsFatal ==
    obs.lastAnswer = "e401" => batch[1].pc \notin {"fetch", "json", "errbody"}

\* C5: a run during which stopAIResponse was called issues no further upstream request
C5_NoRequestAfterStop ==
    [][\A b \in Batches : batch[b].stopped => ~Issued(b)]_vars

\* the keys other than a, in stored order
OtherKeys(a) == SelectSeq(StoredKeys, LAMBDA k : k # a)

\* C6: after the active key, generateAIResponse tries the other stored keys in stored order
\* (then at most the built-in key); the first key that gets an OK, well-formed answer
\* is the last key tried and its trimmed text is the value returned
C6_KeyRotation ==
    LET kt == obs.keysTried
        others == OtherKeys(obs.apiKey)
    IN  /\ kt # <<>> => kt[1] = StoredKeys[activeIdx] /\ kt[1] = obs.apiKey
        /\ \A i \in 2..Len(kt) :
              IF i - 1 <= Len(others)
              THEN kt[i] = others[i - 1]
              ELSE i = Len(others) + 2 /\ kt[i] = BuiltinKey
        /\ obs.okKey # 0 =>
              /\ obs.okKey = kt[Len(kt)]
              /\ batch[1].pc = "done"
              /\ batch[1].outcome \in {"response", "silent"}
              /\ batch[1].text = Trim(obs.okText)

\* witness of C6: the active key and the next stored key failed, the third key tried
\* answered and its text was shown
C6_Witness ==
    /\ Len(obs.keysTried) = 3
    /\ obs.okKey = obs.keysTried[3]
    /\ obs.keysTried[2] < obs.keysTried[3]
    /\ batch[1].outcome = "response"

\* the list a call is expected to walk: models reported by ListModels that the default
\* list lacks, then the default list
ExpectedConfigs(avail) ==
    SelectSeq(avail, LAMBDA m : \A i \in 1..NumDefaultConfigs : m # i) \o
        [i \in 1..NumDefaultConfigs |-> i]

\* C7: a tryGenerateWithKey call requests the models in list order, has requested the next
\* model after a 404 'not found' answer, and the first OK, well-formed answer ends the call
\* with its text as the value returned
C7_ModelFallback ==
    /\ Len(obs.cfgLog) <= Len(ExpectedConfigs(obs.avail))
    /\ obs.cfgLog = SubSeq(ExpectedConfigs(obs.avail), 1, Len(obs.cfgLog))
    /\ obs.lastAnswer = "e404" /\ Active(1) =>
          /\ batch[1].pc \in {"fetch", "json", "errbody"}
          /\ Len(obs.cfgLog) = obs.answered + 1
    /\ obs.okAt # 0 =>
          /\ obs.okAt = Len(obs.cfgLog)
          /\ obs.lastAnswer = "okText"
          /\ batch[1].pc = "done"
          /\ batch[1].text = Trim(obs.okText)

\* witness of C7: the first model was answered 404, the second answered well and ended the call
C7_Witness ==
    /\ obs.okAt >= 2
    /\ obs.lastAnswer = "okText"
    /\ batch[1].outcome = "response"

\* AI entries of #messages that run b appended
AiEntriesOf(c, b) == {i \in DOMAIN c : c[i].role = "ai" /\ c[i].ref = b}

\* C8: a run that was not stopped and ends without a response appends exactly one AI error
\* message and leaves the client idle
C8_AllFailedShowsOneError ==
    [][\A b \in Batches :
          (Active(b) /\ batch'[b].pc = "done" /\ ~batch'[b].stopped
                     /\ batch'[b].outcome # "response") =>
             /\ batch'[b].outcome = "error"
             /\ chat' = Append(chat, AiEntry(b, "error", <<>>))
             /\ Cardinality(AiEntriesOf(chat', b)) = 1
             /\ ~isGeneratingResponse'
             /\ abortController' = 0
             /\ sendBtn' = "Send"]_vars

\* witness of C8: a run that was never stopped ended with the error message
C8_Witness ==
    \E b \in Batches :
        /\ batch[b].outcome = "error"
        /\ ~batch[b].stopped
        /\ ~isGeneratingResponse

\* setTimeout callbacks of the batch timer that are pending
ArmedTimers == (IF batchTimeout = "armed" THEN 1 ELSE 0) + orphanTimers

\* C9: at every moment at most one batch timer is armed
C9_AtMostOneTimer == ArmedTimers <= 1

(***************************************************************************)
(* Properties of the server                                                *)
(***************************************************************************)

\* C2: no two stored messages of a conversation have the same message_order, also when
\* add requests for the conversation are handled at the same time
C2_UniqueMessageOrder ==
    \A id \in ConvIds : \A i, j \in DOMAIN messages[id] :
        i # j => messages[id][i].message_order # messages[id][j].message_order

\* the last k rows of conversation id carry the roles and contents of data, in its order
StoredLast(id, data) ==
    LET rows == RowsOf(id)
        n == Len(rows)
        k == Len(data)
    IN  /\ k <= n
        /\ \A j \in 1..k : /\ rows[n - k + j].role = data[j].role
                           /\ rows[n - k + j].content = data[j].content
                           /\ rows[n - k + j].message_order = n - k + j

\* C3: when the add requests of a conversation are handled one after the other, its n rows
\* carry the message_order values 1..n in insertion order; a single add answers with
\* max + 1, a bulk add stores its array as max + 1 .. max + k in array order; a
\* message_order of the request body changes none of this
C3_SequentialOrders ==
    /\ \A id \in ConvIds : \A k \in DOMAIN messages[id] : messages[id][k].message_order = k
    /\ resp.type = "add" /\ resp.status = 201 =>
          /\ StoredLast(resp.conv, resp.data)
          /\ resp.data[1].messageOrder = Len(RowsOf(resp.conv))
    /\ resp.type = "bulk" /\ resp.status = 201 => StoredLast(resp.conv, resp.data)

\* witness of C3: a bulk add of two messages was stored behind an earlier message
C3_Witness ==
    /\ resp.type = "bulk"
    /\ resp.status = 201
    /\ Len(resp.data) = 2
    /\ Len(RowsOf(resp.conv)) = 3

\* routes that name a conversation, and those of them that validate the body first
ConversationRoutes == {"get", "put", "delete", "messages", "add", "bulk"}
ValidatingRoutes == {"put", "add", "bulk"}

\* r is a request (or the response to one) of a user for a stored conversation of another user
OwnedByOther(r) ==
    /\ r.type \in ConversationRoutes
    /\ r.user # 0
    /\ \E c \in conversations : c.id = r.conv /\ c.user_id # r.user

\* a step keeps one user's conversations from the other: the answer to a request for
\* another user's conversation has a status of statuses (400 only from a validating
\* route), carries no data, and no step of such a request changes a table; a list
\* answer holds conversations of the caller only
IsolationStep(statuses) ==
    /\ \A s \in Slots :
          req'[s] # req[s] /\ (OwnedByOther(req[s]) \/ OwnedByOther(req'[s])) =>
             UNCHANGED <<conversations, recency, messages>>
    /\ resp' # NoResp /\ OwnedByOther(resp') =>
          /\ resp'.status \in statuses
          /\ resp'.status = 400 => resp'.type \in ValidatingRoutes
          /\ resp'.data = <<>>
          /\ UNCHANGED <<conversations, recency, messages>>
    /\ resp'.type = "list" /\ resp'.status = 200 =>
          \A k \in DOMAIN resp'.data :
              \E c \in conversations : c.id = resp'.data[k].id /\ c.user_id = resp'.user

\* C10 as stated: every request for another user's conversation is answered 404, returns
\* none of its data and leaves it unchanged; the list holds the caller's conversations only
C10_CrossUserAnswered404 == [][IsolationStep({404})]_vars

\* C10 as the handlers have it: such a request is answered 404, or 400 when its body fails
\* the validation that PUT, add and bulk add run before they look the conversation up;
\* either way it returns none of the data and leaves it unchanged
C10_CrossUserRejected == [][IsolationStep({400, 404})]_vars

\* witness of C10: a user's delete of another user's conversation that has messages was
\* answered 404
C10_Witness ==
    /\ OwnedByOther(resp)
    /\ resp.type = "delete"
    /\ resp.status = 404
    /\ RowsOf(resp.conv) # <<>>

\* C11: a request to a conversations, messages, settings or verify route that carries no
\* bearer token is answered 401, one whose token is invalid or expired is answered 403; in
\* both cases no handler starts or advances and every table is left as it was.
ProtectedRoutes == Routes
C11_Rejected ==
    (resp' # resp /\ resp'.auth \in Rejections) =>
        /\ resp'.type \in ProtectedRoutes
        /\ resp'.status = (IF resp'.auth = "none" THEN 401 ELSE 403)
        /\ resp'.data = <<>>
        /\ req' = req
        /\ <<conversations, recency, messages, nextId, users, user_settings>>' =
               <<conversations, recency, messages, nextId, users, user_settings>>
C11_UnauthenticatedRejected == [][C11_Rejected]_vars
C11_Witness ==
    /\ resp.auth = "bad" /\ resp.status = 403 /\ resp.type = "delete"
    /\ conversations # {} /\ TotalRows > 0 /\ user_settings[1].set

\* C18: once stopAIResponse was called during a run, that run appends no AI message
\* (response or error) to the chat and pushes no assistant entry to conversationHistory.
AssistantEntries(h) == {i \in DOMAIN h : h[i].role = "assistant"}
C18_Step ==
    \A b \in Batches :
        (batch[b].stopped /\ batch'[b] # batch[b]) =>
            /\ AiEntriesOf(chat', b) = AiEntriesOf(chat, b)
            /\ AssistantEntries(conversationHistory') = AssistantEntries(conversationHistory)
C18_StoppedRunAppendsNothing == [][C18_Step]_vars

\* C14: the step that answers the owner's DELETE /api/conversations/:id with 200 leaves
\* neither the conversation nor any message with its conversation_id, and leaves the rows
\* of every other conversation as they were; no message ever refers to a missing conversation.
C14_Step ==
    /\ (resp' # resp /\ resp'.type = "delete" /\ resp'.status = 200) =>
           /\ ConvCheck(resp'.conv, resp'.user)
           /\ \A c \in conversations' : c.id # resp'.conv
           /\ messages'[resp'.conv] = <<>>
           /\ conversations' = {c \in conversations : c.id # resp'.conv}
           /\ \A id \in ConvIds \ {resp'.conv} : messages'[id] = messages[id]
    /\ \A id \in ConvIds : (\A c \in conversations' : c.id # id) => messages'[id] = <<>>
C14_DeleteCascades == [][C14_Step]_vars
C14_Witness ==
    /\ resp.type = "delete" /\ resp.status = 200
    /\ ~Exists(resp.conv)
    /\ \E c \in conversations : Len(messages[c.id]) = 2

\* C15: every stored message has a role among user, ai and system; a single add whose role
\* is missing or another value never gets past validation, its 400 stores nothing; a bulk
\* add leaves no message with another role.
C15_Step ==
    /\ \A id \in ConvIds : \A k \in DOMAIN messages'[id] : messages'[id][k].role \in ValidRoles
    /\ \A s \in Slots : req'[s].type = "add" => req'[s].role \in ValidRoles
    /\ (resp' # resp /\ resp'.type = "add" /\ resp'.status = 400) =>
           /\ messages' = messages
           /\ req' = req
C15_RolesValid == [][C15_Step]_vars
C15_Witness ==
    /\ resp.type = "bulk" /\ resp.status = 500
    /\ Exists(resp.conv)
    /\ Len(messages[resp.conv]) = 1

\* C16: GET /api/conversations/:id and GET /api/conversations/:id/messages return the
\* messages of the conversation by ascending message_order, which for requests handled one
\* after the other is the order in which the rows were inserted (a bulk add in array order).
Returned(r) == IF r.type = "get" THEN r.data[1].messages ELSE r.data
C16_Step ==
    (resp' # resp /\ resp'.type \in {"get", "messages"} /\ resp'.status = 200) =>
        LET rows == messages[resp'.conv]
        IN  /\ \A k \in 1..(Len(rows) - 1) : rows[k].message_order < rows[k + 1].message_order
            /\ Returned(resp') = [k \in 1..Len(rows) |-> Msg(rows[k].role, rows[k].content)]
C16_ReturnedInInsertionOrder == [][C16_Step]_vars
C16_Witness ==
    /\ resp.type = "get" /\ resp.status = 200
    /\ Len(Returned(resp)) = 3
    /\ Returned(resp)[1].role = "ai" /\ Returned(resp)[2].role = "user"

\* a step that answers a request of the given route
Answers_(type) == resp'.type = type /\ (resp' # resp \/ req' # req)

\* C12 as stated: a signup for an email that is registered when it is answered, whether
\* before it arrived or by a signup running at the same time, is answered 400, stores no
\* user and issues no token; no two users share an email.
C12_DuplicateStep(statuses) ==
    /\ (Answers_("signup") /\ \E u \in users : u.email = resp'.email) =>
           /\ resp'.status \in statuses
           /\ users' = users
           /\ resp'.data = <<>>
           /\ resp'.status = 500 =>
                  \E s \in Slots : /\ req[s].type = "signup" /\ req[s].pc = "insert"
                                   /\ req[s].email = resp'.email /\ req'[s] = Idle
    /\ \A u, v \in users' : u.email = v.email => u = v
C12_DuplicateAnswered400 == [][C12_DuplicateStep({400})]_vars

\* what does hold of such a signup: the answer is 400, or 500 when the email was registered
\* by another signup between this signup's own check and its INSERT; no user is stored, no
\* token is issued, and no two users share an email.
C12_DuplicateRejected == [][C12_DuplicateStep({400, 500})]_vars
C12_Witness ==
    /\ resp.type = "signup" /\ resp.status = 500
    /\ \E u \in users : u.email = resp.email /\ u.is_active
    /\ Cardinality(users) = 1

\* the login is one that must fail: no active user has this email and this password
MustFail(email, password) ==
    ~\E u \in users : u.email = email /\ u.is_active /\ u.password_hash = Hash(password)

\* C13 as stated: a login whose email is unknown, whose user is inactive or whose password
\* does not match is answered 401, issues no token and leaves last_login unchanged; only a
\* login that passes all three checks changes last_login or gets a token.
C13_LoginStep(malformed) ==
    /\ (Answers_("login") /\ MustFail(resp'.email, resp'.password)) =>
           /\ resp'.status = (IF resp'.email = 0 \/ resp'.password = NoPassword
                              THEN malformed ELSE 401)
           /\ resp'.data = <<>>
           /\ users' = users
    /\ (Answers_("login") /\ resp'.data # <<>>) =>
           /\ resp'.status = 200
           /\ \E u \in users : /\ u.email = resp'.email /\ u.is_active
                                /\ u.password_hash = Hash(resp'.password)
                                /\ resp'.data = <<Token(u)>>
    /\ \A s \in Slots : (req[s].type = "login" /\ req'[s] # req[s] /\ users' # users) =>
           /\ req[s].pc = "update"
           /\ ~MustFail(req[s].email, req[s].password)
C13_FailedLoginAnswered401 == [][C13_LoginStep(401)]_vars

\* C13, amended: a login without an email or without a password is answered 400
C13_FailedLoginRejected == [][C13_LoginStep(400)]_vars
C13_Witness ==
    /\ resp.type = "login" /\ resp.status = 401
    /\ resp.password = OtherPassword
    /\ \E u \in users : u.email = resp.email /\ u.is_active /\ u.last_login = 1

\* C17: the conversations of the sidebar are ordered by updatedAt, most recent first
C17_SidebarSorted ==
    \A i, j \in 1..Len(clientConversations) :
        i < j => clientConversations[i].updatedAt >= clientConversations[j].updatedAt

\* no call of saveCurrentConversation or loadConversation is in progress
AllSaved ==
    /\ \A k \in SaveIds : saves[k].pc \in {"free", "done"}
    /\ loader.pc = "idle"

\* the messages stored for conversation id, in stored order
Stored(id) ==
    LET rows == OrderByMessageOrder(RowsOf(id))
    IN  [k \in 1..Len(rows) |-> Msg(rows[k].role, rows[k].content)]

\* C19: once every save has completed, the messages displayed for the open conversation are
\* stored in that conversation of the server, each exactly once and in display order
Places(m, seq) == {j \in DOMAIN seq : seq[j] = m}
C19_SavedOnceInOrder ==
    (AllSaved /\ currentConversationId # 0) =>
        LET dom == DomMessages(chat)
            stored == Stored(currentConversationId)
            place(k) == CHOOSE j \in Places(dom[k], stored) : TRUE
        IN  /\ \A k \in DOMAIN dom : Cardinality(Places(dom[k], stored)) = 1
            /\ \A k, l \in DOMAIN dom : k < l => place(k) < place(l)

\* C20: the AI response of a batch is displayed and stored only together with the messages
\* that triggered it, that is in the conversation in which they were sent
ResponseOf(b) == DomMessage(AiEntry(b, "response", <<>>))
TriggersOf(b) == {DomMessage(UserEntry(batch[b].msgs[k])) : k \in DOMAIN batch[b].msgs}
C20_ResponseStaysInItsConversation ==
    \A b \in Batches :
        batch[b].outcome = "response" =>
            /\ ResponseOf(b) \in Range(DomMessages(chat)) =>
                   TriggersOf(b) \subseteq Range(DomMessages(chat))
            /\ \A id \in ConvIds :
                   ResponseOf(b) \in Range(Stored(id)) => TriggersOf(b) \subseteq Range(Stored(id))

\* C21: every PUT /api/conversations/:id that saveCurrentConversation issues for a title
\* names the conversation whose first user message the title was made from, also when
\* currentConversationId changed while the save awaited; so no conversation gets a title
\* made from another conversation's message
C21_Step ==
    \A k \in SaveIds :
        (saves[k].pc # "put" /\ saves'[k].pc = "put") => saves'[k].target = saves'[k].conv
C21_TitleGoesToItsConversation == [][C21_Step]_vars

\* C24: within one generateAIResponse call tryGenerateWithKey is called at most once with
\* each key value, the active key, the stored keys and the built-in key counted together
C24_EachKeyTriedOnce ==
    \A i, j \in DOMAIN obs.keysTried : i # j => obs.keysTried[i] # obs.keysTried[j]

\* C26: a bulk add that is answered 400, 404 or 500 leaves the stored messages and the
\* title of the conversation as they were before the request: when the error is answered
\* the handler has inserted no message (its insertedMessages is empty) and the answering
\* step changes neither table
C26_Step ==
    (Answers_("bulk") /\ resp'.status \in {400, 404, 500}) =>
        /\ \A s \in Slots : (req[s].type = "bulk" /\ req'[s] = Idle) => req[s].out = <<>>
        /\ messages' = messages
        /\ conversations' = conversations
C26_FailedBulkStoresNothing == [][C26_Step]_vars

\* the message an add handler in flight has just inserted
Inserted(r) == IF r.type = "add" THEN Msg(r.role, r.content) ELSE r.msgs[r.i]

\* the first 50 characters of a content, with '...' when it is longer
Preview50(c) == [id |-> c.id, len |-> IF c.len > 50 THEN 53 ELSE c.len, dots |-> c.len > 50]

\* C28: a step of an add or bulk add handler changes a title only when the message it has
\* just stored is a user message with message_order 1 and the title is still 'New Chat',
\* and then the title becomes the first 50 characters of the content (plus '...' when it is
\* longer); every other step of these handlers, also for a conversation whose title was
\* set by PUT, leaves every title as it was
C28_Step ==
    \A s \in Slots :
        (req[s].type \in {"add", "bulk"} /\ req'[s] # req[s]) =>
            LET r == req[s]
                first == /\ r.pc = "title"
                         /\ Inserted(r).role = "user"
                         /\ r.order = 1
                         /\ \E k \in DOMAIN messages[r.conv] :
                                /\ messages[r.conv][k].message_order = 1
                                /\ messages[r.conv][k].content = Inserted(r).content
            IN  /\ Cardinality(conversations') = Cardinality(conversations)
                /\ \A c \in conversations :
                    \E d \in conversations' :
                        /\ d.id = c.id
                        /\ d.user_id = c.user_id
                        /\ d.title = IF first /\ c.id = r.conv /\ c.title = NewChatTitle
                                     THEN Preview50(Inserted(r).content)
                                     ELSE c.title
C28_TitleOnlyFromFirstUserMessage == [][C28_Step]_vars

\* witness of C28: a conversation whose title is not 'New Chat' got a user message with
\* message_order 1 and kept its title, while another conversation got its title from its
\* first user message
C28_Witness ==
    /\ resp.type = "add" /\ resp.status = 201
    /\ resp.data[1].role = "user" /\ resp.data[1].messageOrder = 1
    /\ ConvRow(resp.conv).title = GivenTitle
    /\ \E c \in conversations : c.title = Preview50(LongText)

\* C27: while isGeneratingResponse is true, no call of sendMessage, with or without a
\* text, changes the displayed messages, pendingMessages, the batch timer or
\* conversationHistory, and the Enter key runs stopAIResponse, not a send: it ends the
\* generating state, empties pendingMessages and displays nothing
C27_SendIgnoredWhileGenerating ==
    isGeneratingResponse =>
        /\ \A empty \in BOOLEAN :
              ~ENABLED (/\ SendMessage(empty)
                        /\ <<chat, pendingMessages, batchTimeout, orphanTimers,
                             conversationHistory, nSent>>' #
                           <<chat, pendingMessages, batchTimeout, orphanTimers,
                             conversationHistory, nSent>>)
        /\ \A empty \in BOOLEAN :
              /\ ENABLED KeydownEnter(empty)
              /\ ~ENABLED (/\ KeydownEnter(empty)
                           /\ ~(/\ ~isGeneratingResponse'
                                /\ pendingMessages' = <<>>
                                /\ batchTimeout' = "null"
                                /\ abortController' = 0
                                /\ sendBtn' = "Send"
                                /\ <<chat, conversationHistory, nSent>>' =
                                       <<chat, conversationHistory, nSent>>))

\* witness of C27: a generation is in progress and sendMessage can be called with a text
C27_Witness ==
    /\ isGeneratingResponse
    /\ chat # <<>>
    /\ ENABLED SendMessage(FALSE)

\* the answers of the AI service in the runs about termination: OK, 404 and a network error
LiveAnswers == {"ok", "e404", "neterr"}

\* an await of run b settles: its fetch completes or is aborted, a body is read
Settle(b) ==
    /\ \/ ModelsChecked(b, <<1>>)
       \/ \E ans \in LiveAnswers : FetchResponds(b, ans)
       \/ ErrorBodyRead(b, TRUE)
       \/ FetchAborted(b)
       \/ \E rejects \in BOOLEAN : BodyRead(b, TRUE, <<1, 0>>, rejects)
    /\ UNCHANGED <<obs, serverVars, saveVars>>

LiveInit == ClientInit /\ useBuiltin /\ obs = NoObs /\ ServerInit /\ SaveInit

LiveNext ==
    \/ SendMessage(FALSE) /\ UNCHANGED <<obs, serverVars, saveVars>>
    \/ \E orphan \in BOOLEAN : BatchTimerFires(orphan) /\ UNCHANGED <<obs, serverVars, saveVars>>
    \/ StopAIResponse /\ UNCHANGED <<obs, serverVars, saveVars>>
    \/ \E b \in Batches : Settle(b)

\* the client when every await of a run eventually settles
SpecLive == LiveInit /\ [][LiveNext]_vars /\ \A b \in Batches : WF_vars(Settle(b))

\* C23: when every fetch eventually completes or is aborted, every batch that
\* processBatchedMessages started is followed by a state in which isGeneratingResponse is
\* false and the button reads Send, whether the run succeeds, fails or is stopped
C23_GenerationEnds ==
    \A b \in Batches : Active(b) ~> (~isGeneratingResponse /\ sendBtn = "Send")

\* witness of C23: a run that failed, a run that was stopped and then ended, and the
\* client back at rest
C23_Witness ==
    /\ \E b \in Batches : batch[b].outcome = "error"
    /\ \E b \in Batches : batch[b].outcome = "silent" /\ batch[b].stopped
    /\ ~isGeneratingResponse /\ sendBtn = "Send"

\* C22: between two clearings of the chat, however many calls of saveCurrentConversation
\* overlap, createNewConversationOnFirstMessage is called at most once, so that at most
\* one POST /api/conversations is sent or one local conversation made for the chat
C22_OneCreationPerChat == chatCreations <= 1

\* a second save was started and returned while the first still awaits its POST /api/conversations
C22_Witness ==
    /\ chatCreations = 1 /\ currentConversationId = 0 /\ Len(chat) >= 2
    /\ \E k, j \in SaveIds : saves[k].pc = "create" /\ saves[j].pc = "done"

\* no call of saveCurrentConversation, loadConversation, deleteConversation or startChat
\* awaits anything, and no response is being generated
NoOperationInProgress ==
    /\ Started /\ starter = "done"
    /\ \A k \in SaveIds : saves[k].pc \in {"free", "done"}
    /\ loader.pc = "idle"
    /\ deleter.pc = "idle"
    /\ ~isGeneratingResponse

\* C25: whenever no client operation is in progress, currentConversationId is null or the
\* id of a conversation in the list conversations
C25_CurrentConversationListed ==
    NoOperationInProgress => (currentConversationId = 0 \/ currentConversationId \in ListedIds)

\* the ids of a list of conversations, in its order
IdsOf(list) == [k \in 1..Len(list) |-> list[k].id]

\* this step sends POST /api/conversations, or makes a guest's local conversation
CreationStarts ==
    \/ \E k \in SaveIds : saves[k].pc # "create" /\ saves'[k].pc = "create"
    \/ /\ isGuest
       /\ \E k \in 1..Len(clientConversations') :
              clientConversations'[k].id \notin ListedIds \cup Range(IdsOf(storage))

\* this step adds a row to the table conversations, or makes the local conversation of
\* the catch of createNewConversationOnFirstMessage
CreationEnds ==
    \/ \E c \in conversations' : \A d \in conversations : d.id # c.id
    \/ /\ ~isGuest
       /\ \E k \in 1..Len(clientConversations') :
              clientConversations'[k].id < 0 /\ clientConversations'[k].id \notin ListedIds

\* newChat (which runs createNewConversation) and startChat are steps that close the open
\* conversation, empty the history and create nothing; newChat keeps the conversations of
\* the list, startChat lists stored conversations only. A creation starts only in a step
\* that calls saveCurrentConversation with a message displayed and no conversation open,
\* and ends only for a call that awaits createNewConversationOnFirstMessage
C29_Step ==
    /\ (NewChat \/ StartChat) =>
           /\ currentConversationId' = 0
           /\ conversationHistory' = <<>>
           /\ conversations' = conversations
           /\ ~CreationStarts /\ ~CreationEnds
    /\ NewChat => IdsOf(clientConversations') = IdsOf(clientConversations)
    /\ StartChat => \A k \in 1..Len(clientConversations') :
                        clientConversations'[k].id \in Range(IdsOf(storage))
    /\ CreationStarts => nSaves' = nSaves + 1 /\ Len(chat') > 0 /\ currentConversationId = 0
    /\ CreationEnds => \E k \in SaveIds : saves[k].pc = "create" /\ saves'[k].pc # "create"

\* C29 (as amended): newChat, createNewConversation and startChat create no conversation
\* and set currentConversationId to null and conversationHistory to empty; newChat and
\* createNewConversation keep the conversations of the list, startChat replaces the list
\* by the stored one; a conversation is created only by saveCurrentConversation called
\* with at least one message displayed
C29_NewChatCreatesNothing == [][C29_Step]_vars

\* C29 (as stated): newChat and startChat also leave the conversations of the list as they are
C29_ListUnchanged ==
    [][(NewChat \/ StartChat) =>
           /\ currentConversationId' = 0
           /\ conversationHistory' = <<>>
           /\ IdsOf(clientConversations') = IdsOf(clientConversations)]_vars

\* New Chat was clicked on the one conversation, open with its one message: the second
\* save, started by newChat, is the only one not caused by a send; nothing is open, the
\* chat is empty and the list still holds the conversation
C29_Witness ==
    /\ Started /\ nSent = 1 /\ nSaves = 2 /\ deleter.pc = "idle"
    /\ currentConversationId = 0 /\ chat = <<>> /\ conversationHistory = <<>>
    /\ Len(clientConversations) = 1

\* some call has called apiRequest for a conversation or message endpoint and awaits it
AwaitsApiRequest ==
    \/ \E k \in SaveIds : saves[k].pc \in {"create", "post", "put"}
    \/ loader.pc = "fetch"
    \/ deleter.pc \in {"delete", "list"}
    \/ starter = "list"

\* C30: in guest mode no call ever awaits a request to a conversation or message endpoint,
\* with or without a token in localStorage, and the tables of the server stay as they were
C30_GuestSendsNoRequest ==
    isGuest => /\ ~AwaitsApiRequest
               /\ conversations = {}
               /\ \A id \in ConvIds : messages[id] = <<>>

\* a guest holding a token has sent a message in a new chat, deleted one stored
\* conversation and opened the other: the session storage holds the other and the new one
C30_Witness ==
    /\ isGuest /\ hasToken /\ nSaves >= 1
    /\ Len(storage) = 2
    /\ LocalId(1) \notin Range(IdsOf(storage))
    /\ \E k \in 1..2 : storage[k].id < LocalId(3) /\ storage[k].messages # <<>>
    /\ currentConversationId = LocalId(2)
    /\ chat = <<Rendered(OldMessage)>>

====
